---- MODULE Spec2Model ----
(***************************************************************************)
(* A model of the homework-status Telegram bot (Lacolle87/yago_bot).       *)
(*                                                                         *)
(* The repository holds three programs:                                    *)
(*   "cmdbot"    src/main.go lines 1-236: the command listener only        *)
(*               (/start, /status), no poll loop;                          *)
(*   "runbot"    src/main.go lines 238-456: the poll loop runBot only,     *)
(*               which remembers the previous report in prevReport;        *)
(*   "tickerbot" src/unnamed/part_000: a one-shot startup poll, a ticker   *)
(*               goroutine that polls through fetchAPIResponse with the    *)
(*               global lastSentMessage, and the command listener.         *)
(* Init chooses the program; each action belongs to the programs that have *)
(* the code it models.                                                     *)
(*                                                                         *)
(* Text.  TLA+ strings are ASCII only, and the messages are Russian, so a  *)
(* Go string is modelled as the tuple of its Unicode code points; the      *)
(* comment before each constant gives the text.  fmt.Sprintf with %s verbs *)
(* is concatenation (\o) of the fragments of the format string with the    *)
(* arguments.                                                              *)
(*                                                                         *)
(* JSON.  A decoded value (Go's interface{}) is a record [t, v]: t is the  *)
(* dynamic type ("string", "number", "list", "object", "nil"), v the       *)
(* value.  A key that is absent from a map reads as nil, as in Go, so an   *)
(* object carries every key the code reads, absent ones as JNil.           *)
(*                                                                         *)
(* Concurrency.  A goroutine takes a step when the reply of a request it   *)
(* waits for arrives.  The two poll goroutines of part_000 read and write  *)
(* lastSentMessage without synchronisation, a data race on a variable of   *)
(* two words.  The model keeps the two words, takes the write as two       *)
(* stores in either order, and lets the comparison read the words as they  *)
(* stand: whole before or after the write of the other goroutine, or torn  *)
(* between its stores, which gives a wrong comparison or a fault; two      *)
(* writes at once can leave the words of two messages.  A panic or fault   *)
(* in a goroutine ends the process: the recover of main covers the main    *)
(* goroutine only.                                                         *)
(***************************************************************************)
EXTENDS Integers, Sequences, FiniteSets, TLC

(***************************************************************************)
(* Text constants of the sources                                           *)
(***************************************************************************)

\* approved
ApprovedStatus ==
    <<97, 112, 112, 114, 111, 118, 101, 100>>

\* reviewing
ReviewingStatus ==
    <<114, 101, 118, 105, 101, 119, 105, 110, 103>>

\* rejected
RejectedStatus ==
    <<114, 101, 106, 101, 99, 116, 101, 100>>

\* Работа проверена: ревьюеру всё понравилось. Ура!
VerdictApproved ==
    <<1056, 1072, 1073, 1086, 1090, 1072, 32, 1087, 1088, 1086, 1074, 1077,
      1088, 1077, 1085, 1072, 58, 32, 1088, 1077, 1074, 1100, 1102, 1077,
      1088, 1091, 32, 1074, 1089, 1105, 32, 1087, 1086, 1085, 1088, 1072,
      1074, 1080, 1083, 1086, 1089, 1100, 46, 32, 1059, 1088, 1072, 33>>

\* Работа взята на проверку ревьюером.
VerdictReviewing ==
    <<1056, 1072, 1073, 1086, 1090, 1072, 32, 1074, 1079, 1103, 1090, 1072,
      32, 1085, 1072, 32, 1087, 1088, 1086, 1074, 1077, 1088, 1082, 1091,
      32, 1088, 1077, 1074, 1100, 1102, 1077, 1088, 1086, 1084, 46>>

\* Работа проверена: у ревьюера есть замечания.
VerdictRejected ==
    <<1056, 1072, 1073, 1086, 1090, 1072, 32, 1087, 1088, 1086, 1074, 1077,
      1088, 1077, 1085, 1072, 58, 32, 1091, 32, 1088, 1077, 1074, 1100,
      1102, 1077, 1088, 1072, 32, 1077, 1089, 1090, 1100, 32, 1079, 1072,
      1084, 1077, 1095, 1072, 1085, 1080, 1103, 46>>

\* Нет новых статусов работ.
NoNewStatuses ==
    <<1053, 1077, 1090, 32, 1085, 1086, 1074, 1099, 1093, 32, 1089, 1090,
      1072, 1090, 1091, 1089, 1086, 1074, 32, 1088, 1072, 1073, 1086, 1090,
      46>>

\* Не удалось получить статус домашних работ.
StatusFailedText ==
    <<1053, 1077, 32, 1091, 1076, 1072, 1083, 1086, 1089, 1100, 32, 1087,
      1086, 1083, 1091, 1095, 1080, 1090, 1100, 32, 1089, 1090, 1072, 1090,
      1091, 1089, 32, 1076, 1086, 1084, 1072, 1096, 1085, 1080, 1093, 32,
      1088, 1072, 1073, 1086, 1090, 46>>

\* Привет! Я бот, который отслеживает статус проверки домашних работ.
GreetingText ==
    <<1055, 1088, 1080, 1074, 1077, 1090, 33, 32, 1071, 32, 1073, 1086,
      1090, 44, 32, 1082, 1086, 1090, 1086, 1088, 1099, 1081, 32, 1086,
      1090, 1089, 1083, 1077, 1078, 1080, 1074, 1072, 1077, 1090, 32, 1089,
      1090, 1072, 1090, 1091, 1089, 32, 1087, 1088, 1086, 1074, 1077, 1088,
      1082, 1080, 32, 1076, 1086, 1084, 1072, 1096, 1085, 1080, 1093, 32,
      1088, 1072, 1073, 1086, 1090, 46>>

\* Изменился статус проверки работы "
FmtChanged ==
    <<1048, 1079, 1084, 1077, 1085, 1080, 1083, 1089, 1103, 32, 1089, 1090,
      1072, 1090, 1091, 1089, 32, 1087, 1088, 1086, 1074, 1077, 1088, 1082,
      1080, 32, 1088, 1072, 1073, 1086, 1090, 1099, 32, 34>>

\* ": 
FmtColon ==
    <<34, 58, 32>>

\* " для урока "
FmtLesson ==
    <<34, 32, 1076, 1083, 1103, 32, 1091, 1088, 1086, 1082, 1072, 32, 34>>

\* \nКомментарий ревьюера: 
FmtComment ==
    <<10, 1050, 1086, 1084, 1084, 1077, 1085, 1090, 1072, 1088, 1080, 1081,
      32, 1088, 1077, 1074, 1100, 1102, 1077, 1088, 1072, 58, 32>>

\* Неизвестный статус домашней работы: 
FmtUnknownStatus ==
    <<1053, 1077, 1080, 1079, 1074, 1077, 1089, 1090, 1085, 1099, 1081, 32,
      1089, 1090, 1072, 1090, 1091, 1089, 32, 1076, 1086, 1084, 1072, 1096,
      1085, 1077, 1081, 32, 1088, 1072, 1073, 1086, 1090, 1099, 58, 32>>

\* Неверный формат ответа: поле 'homeworks' не является списком
ErrNotList ==
    <<1053, 1077, 1074, 1077, 1088, 1085, 1099, 1081, 32, 1092, 1086, 1088,
      1084, 1072, 1090, 32, 1086, 1090, 1074, 1077, 1090, 1072, 58, 32,
      1087, 1086, 1083, 1077, 32, 39, 104, 111, 109, 101, 119, 111, 114,
      107, 115, 39, 32, 1085, 1077, 32, 1103, 1074, 1083, 1103, 1077, 1090,
      1089, 1103, 32, 1089, 1087, 1080, 1089, 1082, 1086, 1084>>

\* Неверный формат ответа: элемент 'homework' не является словарем
ErrNotDict ==
    <<1053, 1077, 1074, 1077, 1088, 1085, 1099, 1081, 32, 1092, 1086, 1088,
      1084, 1072, 1090, 32, 1086, 1090, 1074, 1077, 1090, 1072, 58, 32,
      1101, 1083, 1077, 1084, 1077, 1085, 1090, 32, 39, 104, 111, 109, 101,
      119, 111, 114, 107, 39, 32, 1085, 1077, 32, 1103, 1074, 1083, 1103,
      1077, 1090, 1089, 1103, 32, 1089, 1083, 1086, 1074, 1072, 1088, 1077,
      1084>>

\* Неверный формат ответа: поле 'homework_name' не является строкой
ErrNameNotString ==
    <<1053, 1077, 1074, 1077, 1088, 1085, 1099, 1081, 32, 1092, 1086, 1088,
      1084, 1072, 1090, 32, 1086, 1090, 1074, 1077, 1090, 1072, 58, 32,
      1087, 1086, 1083, 1077, 32, 39, 104, 111, 109, 101, 119, 111, 114,
      107, 95, 110, 97, 109, 101, 39, 32, 1085, 1077, 32, 1103, 1074, 1083,
      1103, 1077, 1090, 1089, 1103, 32, 1089, 1090, 1088, 1086, 1082, 1086,
      1081>>

\* Неверный формат ответа: поле 'status' не является строкой
ErrStatusNotString ==
    <<1053, 1077, 1074, 1077, 1088, 1085, 1099, 1081, 32, 1092, 1086, 1088,
      1084, 1072, 1090, 32, 1086, 1090, 1074, 1077, 1090, 1072, 58, 32,
      1087, 1086, 1083, 1077, 32, 39, 115, 116, 97, 116, 117, 115, 39, 32,
      1085, 1077, 32, 1103, 1074, 1083, 1103, 1077, 1090, 1089, 1103, 32,
      1089, 1090, 1088, 1086, 1082, 1086, 1081>>

\* неверный формат ответа: поле 'homeworks' не является списком
ErrNotList_part000 ==
    <<1085, 1077, 1074, 1077, 1088, 1085, 1099, 1081, 32, 1092, 1086, 1088,
      1084, 1072, 1090, 32, 1086, 1090, 1074, 1077, 1090, 1072, 58, 32,
      1087, 1086, 1083, 1077, 32, 39, 104, 111, 109, 101, 119, 111, 114,
      107, 115, 39, 32, 1085, 1077, 32, 1103, 1074, 1083, 1103, 1077, 1090,
      1089, 1103, 32, 1089, 1087, 1080, 1089, 1082, 1086, 1084>>

\* неверный формат ответа: элемент 'homework' не является словарем
ErrNotDict_part000 ==
    <<1085, 1077, 1074, 1077, 1088, 1085, 1099, 1081, 32, 1092, 1086, 1088,
      1084, 1072, 1090, 32, 1086, 1090, 1074, 1077, 1090, 1072, 58, 32,
      1101, 1083, 1077, 1084, 1077, 1085, 1090, 32, 39, 104, 111, 109, 101,
      119, 111, 114, 107, 39, 32, 1085, 1077, 32, 1103, 1074, 1083, 1103,
      1077, 1090, 1089, 1103, 32, 1089, 1083, 1086, 1074, 1072, 1088, 1077,
      1084>>

\* неверный формат ответа: поле 'homework_name' не является строкой
ErrNameNotString_part000 ==
    <<1085, 1077, 1074, 1077, 1088, 1085, 1099, 1081, 32, 1092, 1086, 1088,
      1084, 1072, 1090, 32, 1086, 1090, 1074, 1077, 1090, 1072, 58, 32,
      1087, 1086, 1083, 1077, 32, 39, 104, 111, 109, 101, 119, 111, 114,
      107, 95, 110, 97, 109, 101, 39, 32, 1085, 1077, 32, 1103, 1074, 1083,
      1103, 1077, 1090, 1089, 1103, 32, 1089, 1090, 1088, 1086, 1082, 1086,
      1081>>

\* неверный формат ответа: поле 'status' не является строкой
ErrStatusNotString_part000 ==
    <<1085, 1077, 1074, 1077, 1088, 1085, 1099, 1081, 32, 1092, 1086, 1088,
      1084, 1072, 1090, 32, 1086, 1090, 1074, 1077, 1090, 1072, 58, 32,
      1087, 1086, 1083, 1077, 32, 39, 115, 116, 97, 116, 117, 115, 39, 32,
      1085, 1077, 32, 1103, 1074, 1083, 1103, 1077, 1090, 1089, 1103, 32,
      1089, 1090, 1088, 1086, 1082, 1086, 1081>>

\* hw1
Hw1 ==
    <<104, 119, 49>>

\* hw2
Hw2 ==
    <<104, 119, 50>>

\* bogus
Bogus ==
    <<98, 111, 103, 117, 115>>

\* L1
Lesson1 ==
    <<76, 49>>

\* ok
CommentOk ==
    <<111, 107>>

\* Изменился статус проверки работы "hw1": Работа проверена: ревьюеру всё понравилось. Ура!
Scenario_hw1_approved ==
    <<1048, 1079, 1084, 1077, 1085, 1080, 1083, 1089, 1103, 32, 1089, 1090,
      1072, 1090, 1091, 1089, 32, 1087, 1088, 1086, 1074, 1077, 1088, 1082,
      1080, 32, 1088, 1072, 1073, 1086, 1090, 1099, 32, 34, 104, 119, 49,
      34, 58, 32, 1056, 1072, 1073, 1086, 1090, 1072, 32, 1087, 1088, 1086,
      1074, 1077, 1088, 1077, 1085, 1072, 58, 32, 1088, 1077, 1074, 1100,
      1102, 1077, 1088, 1091, 32, 1074, 1089, 1105, 32, 1087, 1086, 1085,
      1088, 1072, 1074, 1080, 1083, 1086, 1089, 1100, 46, 32, 1059, 1088,
      1072, 33>>

\* Изменился статус проверки работы "hw1" для урока "": Работа проверена: ревьюеру всё понравилось. Ура!\nКомментарий ревьюера: 
Scenario_hw1_approved_part000 ==
    <<1048, 1079, 1084, 1077, 1085, 1080, 1083, 1089, 1103, 32, 1089, 1090,
      1072, 1090, 1091, 1089, 32, 1087, 1088, 1086, 1074, 1077, 1088, 1082,
      1080, 32, 1088, 1072, 1073, 1086, 1090, 1099, 32, 34, 104, 119, 49,
      34, 32, 1076, 1083, 1103, 32, 1091, 1088, 1086, 1082, 1072, 32, 34,
      34, 58, 32, 1056, 1072, 1073, 1086, 1090, 1072, 32, 1087, 1088, 1086,
      1074, 1077, 1088, 1077, 1085, 1072, 58, 32, 1088, 1077, 1074, 1100,
      1102, 1077, 1088, 1091, 32, 1074, 1089, 1105, 32, 1087, 1086, 1085,
      1088, 1072, 1074, 1080, 1083, 1086, 1089, 1100, 46, 32, 1059, 1088,
      1072, 33, 10, 1050, 1086, 1084, 1084, 1077, 1085, 1090, 1072, 1088,
      1080, 1081, 32, 1088, 1077, 1074, 1100, 1102, 1077, 1088, 1072, 58,
      32>>

(***************************************************************************)
(* Decoded JSON values                                                     *)
(***************************************************************************)

NoText == <<>>

NoErr == <<>>

JNil == [t |-> "nil", v |-> <<>>]

JStr(s) == [t |-> "string", v |-> s]

JNum(n) == [t |-> "number", v |-> n]

JList(l) == [t |-> "list", v |-> l]

\* A homework object; a key that is absent is JNil.
JObj(name, status, comment, lesson) ==
    [t |-> "object",
     v |-> [homework_name |-> name, status |-> status,
            reviewer_comment |-> comment, lesson_name |-> lesson]]

\* The decoded response body: the two keys the code reads.
Response(homeworks, date) == [homeworks |-> homeworks, current_date |-> date]

Min(S) == CHOOSE x \in S : \A y \in S : x <= y

(***************************************************************************)
(* getAPIAnswer: the HTTP exchange with the homework API.  The reply of    *)
(* the network is an input: a transport failure, or a status code with a   *)
(* body that either decodes to a JSON object (or null) or does not.        *)
(***************************************************************************)

StatusOK == 200

TransportFailure == [kind |-> "transport", code |-> 0, decodes |-> FALSE, data |-> Response(JNil, JNil)]

HttpReply(code, decodes, data) ==
    [kind |-> "http", code |-> code, decodes |-> decodes, data |-> data]

\* src/main.go, runbot: (data, err)
getAPIAnswer(reply) ==
    IF reply.kind = "transport" THEN [data |-> Response(JNil, JNil), err |-> "transport"]
    ELSE IF reply.code # StatusOK THEN [data |-> Response(JNil, JNil), err |-> "status"]
    ELSE IF ~reply.decodes THEN [data |-> Response(JNil, JNil), err |-> "decode"]
    ELSE [data |-> reply.data, err |-> "nil"]

\* src/main.go, cmdbot: the same exchange, with log lines.
getAPIAnswer_cmdbot(reply) ==
    IF reply.kind = "transport" THEN [data |-> Response(JNil, JNil), err |-> "transport"]
    ELSE IF reply.code # StatusOK THEN [data |-> Response(JNil, JNil), err |-> "status"]
    ELSE IF ~reply.decodes THEN [data |-> Response(JNil, JNil), err |-> "decode"]
    ELSE [data |-> reply.data, err |-> "nil"]

\* src/unnamed/part_000
getAPIAnswer_part000(reply) ==
    IF reply.kind = "transport" THEN [data |-> Response(JNil, JNil), err |-> "transport"]
    ELSE IF reply.code # StatusOK THEN [data |-> Response(JNil, JNil), err |-> "status"]
    ELSE IF ~reply.decodes THEN [data |-> Response(JNil, JNil), err |-> "decode"]
    ELSE [data |-> reply.data, err |-> "nil"]

\* response["current_date"].(float64): the assertion panics on anything but a number.
currentDatePanics(response) == response.current_date.t # "number"

(***************************************************************************)
(* checkResponse                                                           *)
(***************************************************************************)

\* Homework{} of src/main.go
ZeroHomework == [Name |-> <<>>, Status |-> <<>>]

\* Mutant of elementError: the status is looked at before the name.
elementError_statusFirst(hwJSON) ==
    IF hwJSON.t # "object" THEN ErrNotDict
    ELSE IF hwJSON.v.status.t # "string" THEN ErrStatusNotString
    ELSE IF hwJSON.v.homework_name.t # "string" THEN ErrNameNotString
    ELSE NoErr

\* The error of one element of the list in src/main.go, NoErr when it is valid.
elementError(hwJSON) ==
    IF hwJSON.t # "object" THEN ErrNotDict
    ELSE IF hwJSON.v.homework_name.t # "string" THEN ErrNameNotString
    ELSE IF hwJSON.v.status.t # "string" THEN ErrStatusNotString
    ELSE NoErr

\* Mutant of checkResponse: the records come out in the reverse order of the
\* list, so that the record the callers take is the last one.
checkResponse_lastFirst(response) ==
    IF response.homeworks.t # "list"
    THEN [homeworks |-> <<>>, err |-> ErrNotList]
    ELSE LET homeworksJSON == response.homeworks.v
             n == Len(homeworksJSON)
             bad == {i \in 1..n : elementError(homeworksJSON[i]) # NoErr}
         IN  IF bad # {}
             THEN [homeworks |-> <<>>, err |-> elementError(homeworksJSON[Min(bad)])]
             ELSE [homeworks |-> [i \in 1..n |->
                                    [Name |-> homeworksJSON[n + 1 - i].v.homework_name.v,
                                     Status |-> homeworksJSON[n + 1 - i].v.status.v]],
                   err |-> NoErr]

\* src/main.go: ([]Homework, error); the loop returns at the first bad element.
checkResponse(response) ==
    IF response.homeworks.t # "list"
    THEN [homeworks |-> <<>>, err |-> ErrNotList]
    ELSE LET homeworksJSON == response.homeworks.v
             bad == {i \in 1..Len(homeworksJSON) : elementError(homeworksJSON[i]) # NoErr}
         IN  IF bad # {}
             THEN [homeworks |-> <<>>, err |-> elementError(homeworksJSON[Min(bad)])]
             ELSE [homeworks |-> [i \in 1..Len(homeworksJSON) |->
                                    [Name |-> homeworksJSON[i].v.homework_name.v,
                                     Status |-> homeworksJSON[i].v.status.v]],
                   err |-> NoErr]

elementError_part000(hwJSON) ==
    IF hwJSON.t # "object" THEN ErrNotDict_part000
    ELSE IF hwJSON.v.homework_name.t # "string" THEN ErrNameNotString_part000
    ELSE IF hwJSON.v.status.t # "string" THEN ErrStatusNotString_part000
    ELSE NoErr

\* Mutant of optionalString: the value is dropped.
optionalString_dropped(value) == <<>>

\* hwMap[key].(string) with the ok result dropped: "" unless a string.
optionalString(value) == IF value.t = "string" THEN value.v ELSE <<>>

\* src/unnamed/part_000: the records also carry the two optional fields.
checkResponse_part000(response) ==
    IF response.homeworks.t # "list"
    THEN [homeworks |-> <<>>, err |-> ErrNotList_part000]
    ELSE LET homeworksJSON == response.homeworks.v
             bad == {i \in 1..Len(homeworksJSON) :
                        elementError_part000(homeworksJSON[i]) # NoErr}
         IN  IF bad # {}
             THEN [homeworks |-> <<>>, err |-> elementError_part000(homeworksJSON[Min(bad)])]
             ELSE [homeworks |-> [i \in 1..Len(homeworksJSON) |->
                                    [Name |-> homeworksJSON[i].v.homework_name.v,
                                     Status |-> homeworksJSON[i].v.status.v,
                                     ReviewerComment |->
                                        optionalString(homeworksJSON[i].v.reviewer_comment),
                                     LessonName |->
                                        optionalString(homeworksJSON[i].v.lesson_name)]],
                   err |-> NoErr]

(***************************************************************************)
(* parseStatus                                                             *)
(***************************************************************************)

\* Mutant of HomeworkVerdict: the verdicts of approved and rejected swapped.
HomeworkVerdict_swapped ==
    (ApprovedStatus :> VerdictRejected) @@ (ReviewingStatus :> VerdictReviewing)
        @@ (RejectedStatus :> VerdictApproved)

\* The table that init fills.
HomeworkVerdict ==
    (ApprovedStatus :> VerdictApproved) @@ (ReviewingStatus :> VerdictReviewing)
        @@ (RejectedStatus :> VerdictRejected)

\* Mutant of parseStatus: the case of the sentinel is left out.
parseStatus_noSentinel(homework) ==
    IF homework.Status \in DOMAIN HomeworkVerdict
    THEN [message |-> FmtChanged \o homework.Name \o FmtColon
                        \o HomeworkVerdict[homework.Status],
          err |-> NoErr]
    ELSE [message |-> NoText, err |-> FmtUnknownStatus \o homework.Status]

\* src/main.go (both programs): (message, error)
parseStatus(homework) ==
    IF homework.Status \in DOMAIN HomeworkVerdict
    THEN [message |-> FmtChanged \o homework.Name \o FmtColon
                        \o HomeworkVerdict[homework.Status],
          err |-> NoErr]
    ELSE IF homework.Status = NoNewStatuses
    THEN [message |-> homework.Status, err |-> NoErr]
    ELSE [message |-> NoText, err |-> FmtUnknownStatus \o homework.Status]

\* Mutant of parseStatus_part000: the default case returns the status as the
\* message, without error.
parseStatus_part000_lenient(homework) ==
    IF homework.Status \in {ApprovedStatus, ReviewingStatus, RejectedStatus}
    THEN [message |-> FmtChanged \o homework.Name \o FmtLesson \o homework.LessonName
                        \o FmtColon \o HomeworkVerdict[homework.Status]
                        \o FmtComment \o homework.ReviewerComment,
          err |-> NoErr]
    ELSE [message |-> homework.Status, err |-> NoErr]

\* src/unnamed/part_000: no sentinel case; lesson and comment always interpolated.
parseStatus_part000(homework) ==
    IF homework.Status \in {ApprovedStatus, ReviewingStatus, RejectedStatus}
    THEN [message |-> FmtChanged \o homework.Name \o FmtLesson \o homework.LessonName
                        \o FmtColon \o HomeworkVerdict[homework.Status]
                        \o FmtComment \o homework.ReviewerComment,
          err |-> NoErr]
    ELSE [message |-> NoText, err |-> FmtUnknownStatus \o homework.Status]

(***************************************************************************)
(* Bounds and inputs                                                       *)
(***************************************************************************)

\* Poll cycles begun in a run.
MaxTicks == 3

\* Updates the listener receives in a run.
MaxUpdates == 2

\* Poll cycles and updates together, in the program that has both (part_000).
MaxEvents == 2

Programs == {"cmdbot", "runbot", "tickerbot"}

PollTasks == {"runBot", "startup", "ticker"}

\* TELEGRAM_CHAT_ID: "101", and a channel name, which is no integer.
ChatIdNumeric == <<49, 48, 49>>

ChatIdChannel == <<64, 104, 119>>

\* The chats commands come from.
Chats == {101, 202}

\* The first element of the homeworks list.
Elements ==
    { JObj(JStr(Hw1), JStr(ApprovedStatus), JNil, JNil),
      JObj(JStr(Hw2), JStr(ApprovedStatus), JNil, JNil),
      JObj(JStr(Hw1), JStr(RejectedStatus), JStr(CommentOk), JStr(Lesson1)),
      JObj(JStr(Hw1), JStr(Bogus), JNil, JNil),
      JObj(JStr(Hw1), JStr(NoNewStatuses), JNil, JNil),
      JObj(JNil, JStr(ApprovedStatus), JNil, JNil),
      JObj(JStr(Hw1), JNum(1), JNil, JNil),
      JStr(Hw1) }

\* What follows a valid first element: a valid record, a non-object.
Tails ==
    { <<JObj(JStr(Hw2), JStr(ReviewingStatus), JNil, JNil)>>,
      <<JNum(1)>> }

HomeworkLists ==
    {<<>>} \cup {<<e>> : e \in Elements}
        \cup {<<JObj(JStr(Hw1), JStr(ApprovedStatus), JNil, JNil)>> \o tl : tl \in Tails}

Dates == {JNum(1000), JNum(2000)}

\* The bodies that decode: the lists with a date, and bodies that lack the
\* list or a numeric date.
Bodies ==
    {Response(JList(l), JNum(1000)) : l \in HomeworkLists}
        \cup {Response(JList(l), d) :
                l \in {<<>>, <<JObj(JStr(Hw1), JStr(ApprovedStatus), JNil, JNil)>>},
                d \in Dates}
        \cup {Response(JNil, JNum(1000)),
              Response(JList(<<>>), JNil),
              Response(JList(<<JObj(JStr(Hw1), JStr(ApprovedStatus), JNil, JNil)>>),
                       JStr(Hw1))}

HttpReplies ==
    {TransportFailure, HttpReply(500, FALSE, Response(JNil, JNil)),
     HttpReply(StatusOK, FALSE, Response(JNil, JNil))}
        \cup {HttpReply(StatusOK, TRUE, b) : b \in Bodies}

\* An update of the long poll: no message, a plain text, or a command.
\* sender: Message.From is there (it is a pointer, nil for a message that
\* has no sender).  The /start of chat 101 comes with and without a sender;
\* the /status of chat 202 comes without one.
Updates ==
    {[hasMessage |-> FALSE, isCommand |-> FALSE, command |-> "", chat |-> 0,
      sender |-> TRUE]}
        \cup {[hasMessage |-> TRUE, isCommand |-> FALSE, command |-> "", chat |-> c,
               sender |-> TRUE] : c \in Chats}
        \cup {[hasMessage |-> TRUE, isCommand |-> TRUE, command |-> k, chat |-> c,
               sender |-> TRUE] : k \in {"start", "help"}, c \in Chats}
        \cup {[hasMessage |-> TRUE, isCommand |-> TRUE, command |-> "start",
               chat |-> 101, sender |-> FALSE],
              [hasMessage |-> TRUE, isCommand |-> TRUE, command |-> "status",
               chat |-> 101, sender |-> TRUE],
              [hasMessage |-> TRUE, isCommand |-> TRUE, command |-> "status",
               chat |-> 202, sender |-> FALSE]}

(***************************************************************************)
(* strconv.ParseInt(TelegramChatID, 10, 64)                                *)
(***************************************************************************)

IsDigit(c) == c \in 48..57

RECURSIVE decimalValue(_)
decimalValue(digits) ==
    IF digits = <<>> THEN 0
    ELSE 10 * decimalValue(SubSeq(digits, 1, Len(digits) - 1))
            + (digits[Len(digits)] - 48)

\* (value, ok): an optional sign and at least one decimal digit.  The
\* identifiers of the model are short, so the int64 range is never exceeded.
ParseInt(s) ==
    LET signed == Len(s) > 0 /\ s[1] \in {43, 45}
        digits == IF signed THEN Tail(s) ELSE s
        ok == Len(digits) > 0 /\ \A i \in 1..Len(digits) : IsDigit(digits[i])
    IN  [value |-> IF ~ok THEN 0
                   ELSE IF signed /\ s[1] = 45 THEN 0 - decimalValue(digits)
                   ELSE decimalValue(digits),
         ok |-> ok]

(***************************************************************************)
(* One iteration of runBot (src/main.go) up to its send: what the          *)
(* iteration does with the reply of the API, given the loop's variables.   *)
(*   kind "fetch_error"      getAPIAnswer failed: sleep, continue          *)
(*        "panic"            the current_date assertion panicked           *)
(*        "schema_error"     checkResponse failed: sleep, continue         *)
(*        "translate_error"  parseStatus failed: logged, prevReport moves  *)
(*        "unchanged"        the status equals prevReport.Status           *)
(*        "send"             sendMessage(message) is called                *)
(***************************************************************************)

\* Mutant of SentinelHomework: the status of the placeholder is left out.
SentinelHomework_forgotten == [Name |-> <<>>, Status |-> <<>>]

\* Homework{Status: "Нет новых статусов работ."}
SentinelHomework == [Name |-> <<>>, Status |-> NoNewStatuses]

\* if currentReport.Status != prevReport.Status
statusChanged(currentReport, prevReport) == currentReport.Status # prevReport.Status

\* Mutant of translateFailed: the error of parseStatus is dropped.
translateFailed_never(parsed) == FALSE

\* if err != nil after parseStatus in runBot
translateFailed(parsed) == parsed.err # NoErr

runBotIteration(currentTimestamp, currentReport, prevReport, reply) ==
    LET answer == getAPIAnswer(reply)
        same == [kind |-> "fetch_error", currentTimestamp |-> currentTimestamp,
                 currentReport |-> currentReport, prevReport |-> prevReport,
                 message |-> NoText]
    IN  IF answer.err # "nil" THEN same
        ELSE IF currentDatePanics(answer.data) THEN [same EXCEPT !.kind = "panic"]
        ELSE LET ts == answer.data.current_date.v
                 checked == checkResponse(answer.data)
             IN  IF checked.err # NoErr
                 THEN [same EXCEPT !.kind = "schema_error", !.currentTimestamp = ts]
                 ELSE LET report == IF Len(checked.homeworks) > 0
                                    THEN checked.homeworks[1]
                                    ELSE SentinelHomework
                          parsed == parseStatus(report)
                      IN  IF ~statusChanged(report, prevReport)
                          THEN [kind |-> "unchanged", currentTimestamp |-> ts,
                                currentReport |-> report, prevReport |-> prevReport,
                                message |-> NoText]
                          ELSE IF translateFailed(parsed)
                          THEN [kind |-> "translate_error", currentTimestamp |-> ts,
                                currentReport |-> report, prevReport |-> report,
                                message |-> NoText]
                          ELSE [kind |-> "send", currentTimestamp |-> ts,
                                currentReport |-> report, prevReport |-> prevReport,
                                message |-> parsed.message]

(***************************************************************************)
(* History: what a cycle was about, read off the reply of the API with the *)
(* fetcher, the validator and the translator alone.                        *)
(*   case     "fetch_error", "panic", "schema_error", "translate_error",   *)
(*            "empty" (part_000), "message"                                *)
(*   empty    the list was valid and empty                                 *)
(*   derived  the message of the first record (runBot: of the sentinel     *)
(*            record when the list is empty), NoText when there is none    *)
(***************************************************************************)

CycleView_runbot(reply) ==
    LET answer == getAPIAnswer(reply)
        checked == checkResponse(answer.data)
        report == IF checked.homeworks = <<>> THEN SentinelHomework
                  ELSE checked.homeworks[1]
        parsed == parseStatus(report)
        none == [case |-> "fetch_error", empty |-> FALSE, status |-> NoText,
                 derived |-> NoText]
    IN  IF answer.err # "nil" THEN none
        ELSE IF answer.data.current_date.t # "number" THEN [none EXCEPT !.case = "panic"]
        ELSE IF checked.err # NoErr THEN [none EXCEPT !.case = "schema_error"]
        ELSE [case |-> IF parsed.err # NoErr THEN "translate_error" ELSE "message",
              empty |-> checked.homeworks = <<>>,
              status |-> report.Status,
              derived |-> parsed.message]

CycleView_part000(reply) ==
    LET answer == getAPIAnswer_part000(reply)
        checked == checkResponse_part000(answer.data)
        none == [case |-> "fetch_error", empty |-> FALSE, status |-> NoText,
                 derived |-> NoText]
    IN  IF answer.err # "nil" THEN none
        ELSE IF answer.data.current_date.t # "number" THEN [none EXCEPT !.case = "panic"]
        ELSE IF checked.err # NoErr THEN [none EXCEPT !.case = "schema_error"]
        ELSE IF checked.homeworks = <<>> THEN [none EXCEPT !.case = "empty", !.empty = TRUE]
        ELSE LET parsed == parseStatus_part000(checked.homeworks[1])
             IN  [case |-> IF parsed.err # NoErr THEN "translate_error" ELSE "message",
                  empty |-> FALSE,
                  status |-> checked.homeworks[1].Status,
                  derived |-> parsed.message]

\* The views of the replies of the model, computed once, and the view of
\* any reply.
CycleViews_runbot == [reply \in HttpReplies |-> CycleView_runbot(reply)]

CycleViews_part000 == [reply \in HttpReplies |-> CycleView_part000(reply)]

CycleViewOf(v, reply) ==
    IF reply \in HttpReplies
    THEN IF v = "runbot" THEN CycleViews_runbot[reply] ELSE CycleViews_part000[reply]
    ELSE IF v = "runbot" THEN CycleView_runbot(reply) ELSE CycleView_part000(reply)

(***************************************************************************)
(* One call of fetchAPIResponse (src/unnamed/part_000) up to its send.     *)
(*   kind as above, and                                                    *)
(*        "empty"          the list is empty: only a log line              *)
(*        "chat_id_error"  TelegramChatID is no integer: return the error  *)
(***************************************************************************)

\* UTF-8 takes more than one, two, three bytes for a code point.
TwoBytes(c) == c >= 128
ThreeBytes(c) == c >= 2048
FourBytes(c) == c >= 65536

\* The length of a text in bytes (UTF-8).
ByteLen(s) ==
    Len(s) + Len(SelectSeq(s, TwoBytes)) + Len(SelectSeq(s, ThreeBytes))
           + Len(SelectSeq(s, FourBytes))

\* The texts the replies of the model are translated to, and their lengths,
\* computed once.
Texts == {CycleViews_part000[reply].derived : reply \in HttpReplies}

ByteLens == [s \in Texts |-> ByteLen(s)]

\* len(s) of a Go string.
len(s) == IF s \in Texts THEN ByteLens[s] ELSE ByteLen(s)

\* A Go string variable is two words, the pointer to the bytes and the
\* length.  data stands for the pointer by the text it points to, NoText for
\* the nil pointer of the zero string.
StringHeader(s) == [data |-> s, len |-> len(s)]

\* The words of a string variable that was written by two goroutines at
\* once, or read while it was written, may belong to two texts.
Whole(header) == header.len = len(header.data)

\* What stands for a string variable whose words belong to two texts; no
\* text of the program is equal to it.
Torn == <<-1>>

\* The text of a string variable.
stringOf(header) == IF Whole(header) THEN header.data ELSE Torn

IsPrefix(p, s) == Len(p) <= Len(s) /\ SubSeq(s, 1, Len(p)) = p

\* message != lastSentMessage, as the build computes it: the lengths are
\* compared first, then the bytes (runtime.memequal).  With the words of
\* the variable torn, the bytes are read through a nil pointer (a fault,
\* which ends the process) or past the end of the text pointed to (bytes
\* of whatever lies there, or a fault).  The result is the set of what the
\* comparison can give.
stringsCompare(message, last) ==
    IF len(message) # last.len THEN {"differs"}
    ELSE IF last.len = 0 THEN {"equal"}
    ELSE IF last.data = NoText THEN {"fault"}
    ELSE IF last.len <= len(last.data)
    THEN IF IsPrefix(message, last.data) THEN {"equal"} ELSE {"differs"}
    ELSE {"differs", "fault"}
            \cup IF IsPrefix(last.data, message) THEN {"equal"} ELSE {}

\* Mutant of messageChanged: the comparison with the marker is dropped.
messageChanged_always(outcome) == TRUE

\* if message != lastSentMessage
messageChanged(outcome) == outcome = "differs"

\* if err != nil after parseStatus in fetchAPIResponse
translateFailed_part000(parsed) == parsed.err # NoErr

\* The outcomes of one call: one, but for the comparison of the message with
\* a marker that is torn, which has several (kind "fault" is the fault in
\* the comparison).
fetchAPIResponse(last, chatID, reply) ==
    LET answer == getAPIAnswer_part000(reply)
    IN  IF answer.err # "nil" THEN {[kind |-> "fetch_error", message |-> NoText]}
        ELSE IF currentDatePanics(answer.data) THEN {[kind |-> "panic", message |-> NoText]}
        ELSE LET checked == checkResponse_part000(answer.data)
             IN  IF checked.err # NoErr THEN {[kind |-> "schema_error", message |-> NoText]}
                 ELSE IF ~(Len(checked.homeworks) > 0)
                 THEN {[kind |-> "empty", message |-> NoText]}
                 ELSE LET parsed == parseStatus_part000(checked.homeworks[1])
                      IN  IF translateFailed_part000(parsed)
                          THEN {[kind |-> "translate_error", message |-> NoText]}
                          ELSE {IF outcome = "fault"
                                THEN [kind |-> "fault", message |-> NoText]
                                ELSE IF ~messageChanged(outcome)
                                THEN [kind |-> "unchanged", message |-> NoText]
                                ELSE IF ~ParseInt(chatID).ok
                                THEN [kind |-> "chat_id_error", message |-> NoText]
                                ELSE [kind |-> "send", message |-> parsed.message] :
                                outcome \in stringsCompare(parsed.message, last)}

(***************************************************************************)
(* The goroutine of a /status command (handleCommand, both programs that   *)
(* listen): the reply it sends for the reply of the API.                   *)
(*   kind "panic": the current_date assertion panicked, nothing is sent.   *)
(*   logs: after the send the goroutine logs msg.From.ID.                  *)
(***************************************************************************)

\* src/main.go, cmdbot
handleStatus(reply) ==
    LET answer == getAPIAnswer_cmdbot(reply)
    IN  IF answer.err # "nil" THEN [kind |-> "reply", text |-> StatusFailedText, logs |-> FALSE]
        ELSE IF currentDatePanics(answer.data) THEN [kind |-> "panic", text |-> NoText, logs |-> FALSE]
        ELSE LET checked == checkResponse(answer.data)
             IN  IF checked.err # NoErr THEN [kind |-> "reply", text |-> StatusFailedText, logs |-> FALSE]
                 ELSE IF Len(checked.homeworks) > 0
                 THEN LET parsed == parseStatus(checked.homeworks[1])
                      IN  IF parsed.err # NoErr
                          THEN [kind |-> "reply", text |-> StatusFailedText, logs |-> FALSE]
                          ELSE [kind |-> "reply", text |-> parsed.message, logs |-> TRUE]
                 ELSE [kind |-> "reply", text |-> NoNewStatuses, logs |-> TRUE]

\* src/unnamed/part_000
handleStatus_part000(reply) ==
    LET answer == getAPIAnswer_part000(reply)
    IN  IF answer.err # "nil" THEN [kind |-> "reply", text |-> StatusFailedText, logs |-> FALSE]
        ELSE IF currentDatePanics(answer.data) THEN [kind |-> "panic", text |-> NoText, logs |-> FALSE]
        ELSE LET checked == checkResponse_part000(answer.data)
             IN  IF checked.err # NoErr THEN [kind |-> "reply", text |-> StatusFailedText, logs |-> FALSE]
                 ELSE IF Len(checked.homeworks) > 0
                 THEN LET parsed == parseStatus_part000(checked.homeworks[1])
                      IN  IF parsed.err # NoErr
                          THEN [kind |-> "reply", text |-> StatusFailedText, logs |-> FALSE]
                          ELSE [kind |-> "reply", text |-> parsed.message, logs |-> TRUE]
                 ELSE [kind |-> "reply", text |-> NoNewStatuses, logs |-> TRUE]

(***************************************************************************)
(* State                                                                   *)
(***************************************************************************)

VARIABLES
    variant,          \* which of the three programs runs
    proc,             \* "init", "fatal_..." (log.Fatal in init), "running",
                      \* "crashed" (a goroutine panicked), "exited"
    TelegramChatID,   \* the environment value, a string
    pollPc,           \* per poll goroutine: where it is; "storing_data" and
                      \* "storing_len": between the two word stores of
                      \* lastSentMessage = message, that word still to store
    pollMsg,          \* per poll goroutine: the message of its send in flight
    currentTimestamp, \* runBot: the cursor
    currentReport,    \* runBot
    prevReport,       \* runBot: the last-seen marker
    lastSentMessage,  \* part_000: the global last-sent marker, a string
                      \* variable of two words (data, len)
    statusTasks,      \* the goroutines of the /status commands, in arrival order
    greeted,          \* the greetings sent on /start, in order: chat and text
    listener,         \* handleUpdates: at the channel receive, or in the send of
                      \* a greeting (with Message.From there or not), or panicked
    sent,             \* history: calls of sendMessage by the poll goroutines
    lastDelivered,    \* history: the text of the last poll send that succeeded
    lastFailed,       \* history: the text of the last poll send to return, if it failed
    derived,          \* history: the messages of the poll cycles so far
    pollFrom,         \* per poll goroutine: from_date of its request in flight
    fetchedDate,      \* history: current_date of the last poll fetch that succeeded
    call,             \* a function applied on its own: its name, argument and result
    ticks,            \* poll cycles begun
    updates           \* updates received

vars ==
    <<variant, proc, TelegramChatID, pollPc, pollMsg, currentTimestamp, currentReport,
      prevReport, lastSentMessage, statusTasks, greeted, listener, sent,
      lastDelivered, lastFailed, derived, pollFrom, fetchedDate, call, ticks, updates>>

\* time.Now().Unix() when the process starts
StartTime == 5000

\* RetryPeriod, in seconds
RetryPeriod == IF variant = "tickerbot" THEN 100 ELSE 600

\* time.Now().Unix(): one RetryPeriod has passed for every poll cycle begun.
Now == StartTime + RetryPeriod * ticks

\* No request in flight, no date fetched yet.
NoDate == 0

\* src/main.go getAPIAnswer: the from_date of the request is its argument.
fromDate(timestamp) == timestamp

\* part_000 getAPIAnswer: an hour before its argument, or the clock when the
\* argument is 0.
fromDate_part000(timestamp, now) == IF timestamp = 0 THEN now ELSE timestamp - 3600

\* The history of cycles that did not all derive one and the same message.
Mixed == {NoText}

(***************************************************************************)
(* init: the configuration.  The environment of the process is an input:   *)
(* each of the three variables is unset, set to "" or set to a value; the  *)
(* file .env is missing, or gives none or all of the three keys; the log   *)
(* file opens or not; the bot authorizes or not.                           *)
(***************************************************************************)

Unset == [set |-> FALSE, value |-> NoText]

SetTo(s) == [set |-> TRUE, value |-> s]

\* A token: "t"
Token == <<116>>

\* The keys a .env file gives: none of the three, or all of them.
DotenvFiles ==
    {[exists |-> FALSE, PRACTICUM_TOKEN |-> Unset, TELEGRAM_TOKEN |-> Unset,
      TELEGRAM_CHAT_ID |-> Unset],
     [exists |-> TRUE, PRACTICUM_TOKEN |-> Unset, TELEGRAM_TOKEN |-> Unset,
      TELEGRAM_CHAT_ID |-> Unset],
     [exists |-> TRUE, PRACTICUM_TOKEN |-> SetTo(Token), TELEGRAM_TOKEN |-> SetTo(Token),
      TELEGRAM_CHAT_ID |-> SetTo(ChatIdNumeric)]}

Environments ==
    [dotenv : DotenvFiles,
     PRACTICUM_TOKEN : {Unset, SetTo(NoText), SetTo(Token)},
     TELEGRAM_TOKEN : {Unset, SetTo(NoText), SetTo(Token)},
     TELEGRAM_CHAT_ID : {Unset, SetTo(NoText), SetTo(ChatIdNumeric),
                         SetTo(ChatIdChannel)},
     logFileOpens : BOOLEAN,
     botAuthorizes : BOOLEAN]

\* godotenv.Load() then os.Getenv(key): the file sets a variable that the
\* process does not have; a variable that is unset reads as "".
Getenv(environment, key) ==
    IF environment[key].set THEN environment[key].value
    ELSE environment.dotenv[key].value

\* Mutant of init: the check of the three values is left out.
init_unchecked(environment, hasBot) ==
    IF ~environment.dotenv.exists
    THEN [outcome |-> "fatal_dotenv", TelegramChatID |-> NoText]
    ELSE LET chat == Getenv(environment, "TELEGRAM_CHAT_ID")
         IN  IF ~environment.logFileOpens
             THEN [outcome |-> "fatal_logfile", TelegramChatID |-> chat]
             ELSE IF hasBot /\ ~environment.botAuthorizes
             THEN [outcome |-> "fatal_bot", TelegramChatID |-> chat]
             ELSE [outcome |-> "running", TelegramChatID |-> chat]

\* init: the outcome, and the global it leaves.  hasBot: the program makes
\* the bot in init (the first program of src/main.go, and part_000).
init(environment, hasBot) ==
    IF ~environment.dotenv.exists
    THEN [outcome |-> "fatal_dotenv", TelegramChatID |-> NoText]
    ELSE LET practicum == Getenv(environment, "PRACTICUM_TOKEN")
             telegram == Getenv(environment, "TELEGRAM_TOKEN")
             chat == Getenv(environment, "TELEGRAM_CHAT_ID")
         IN  IF practicum = NoText \/ telegram = NoText \/ chat = NoText
             THEN [outcome |-> "fatal_env", TelegramChatID |-> chat]
             ELSE IF ~environment.logFileOpens
             THEN [outcome |-> "fatal_logfile", TelegramChatID |-> chat]
             ELSE IF hasBot /\ ~environment.botAuthorizes
             THEN [outcome |-> "fatal_bot", TelegramChatID |-> chat]
             ELSE [outcome |-> "running", TelegramChatID |-> chat]

\* No function is applied on its own while the program runs.
NoCall == [fn |-> "none", pc |-> "none", arg |-> <<>>, out |-> <<>>]

\* The program before its first step.
\* handleUpdates blocked in `range updates`.
Receiving == [pc |-> "receiving", sender |-> TRUE]

MachineInit ==
    /\ variant \in Programs
    /\ proc = "init"
    /\ TelegramChatID = NoText
    /\ pollPc = [t \in PollTasks |-> "none"]
    /\ pollMsg = [t \in PollTasks |-> NoText]
    /\ currentTimestamp = StartTime
    /\ currentReport = ZeroHomework
    /\ prevReport = ZeroHomework
    /\ lastSentMessage = StringHeader(NoText)
    /\ statusTasks = <<>>
    /\ greeted = <<>>
    /\ listener = Receiving
    /\ sent = 0
    /\ lastDelivered = NoText
    /\ lastFailed = NoText
    /\ derived = {}
    /\ pollFrom = [t \in PollTasks |-> NoDate]
    /\ fetchedDate = NoDate
    /\ ticks = 0
    /\ updates = 0

Init == MachineInit /\ call = NoCall

\* The date of the last fetch that succeeded, with one more fetch.
withFetched(history, answer) ==
    IF answer.err = "nil" /\ answer.data.current_date.t = "number"
    THEN answer.data.current_date.v ELSE history

\* The history of derived messages with one more cycle.
withDerived(history, message) ==
    IF history = Mixed \/ message = NoText \/ history \notin {{}, {message}}
    THEN Mixed ELSE {message}

\* The message the marker of runBot stands for.
reportText(report) == IF report = ZeroHomework THEN NoText ELSE parseStatus(report).message

\* The message the last-seen / last-sent marker of the poll loop stands for.
MarkerText ==
    IF variant = "runbot" THEN reportText(prevReport) ELSE stringOf(lastSentMessage)

\* The text a /status goroutine hands to sendMessage: the message, the
\* "no new statuses" text or the one failure text, and nothing (the goroutine
\* panics before any send) when current_date is no number.
StatusDue(v, reply) ==
    LET answer == IF v = "cmdbot" THEN getAPIAnswer_cmdbot(reply)
                  ELSE getAPIAnswer_part000(reply)
        checked == IF v = "cmdbot" THEN checkResponse(answer.data)
                   ELSE checkResponse_part000(answer.data)
    IN  IF answer.err # "nil" THEN StatusFailedText
        ELSE IF currentDatePanics(answer.data) THEN NoText
        ELSE IF checked.err # NoErr THEN StatusFailedText
        ELSE IF checked.homeworks = <<>> THEN NoNewStatuses
        ELSE LET parsed == IF v = "cmdbot" THEN parseStatus(checked.homeworks[1])
                           ELSE parseStatus_part000(checked.homeworks[1])
             IN  IF parsed.err # NoErr THEN StatusFailedText ELSE parsed.message

\* StatusDue for the replies of the model, computed once.
StatusDueTo ==
    [v \in Programs |-> [reply \in HttpReplies |-> StatusDue(v, reply)]]
(***************************************************************************)
(* Actions                                                                 *)
(***************************************************************************)

Running == proc = "running"

\* init runs, and when it returns main starts the goroutines of the program:
\* runBot; or the startup poll, the ticker and the listener.
\* (The channel name is tried with part_000, the program that parses
\* TelegramChatID.)
ProcessStart(environment) ==
    /\ proc = "init"
    /\ environment.TELEGRAM_CHAT_ID = SetTo(ChatIdChannel) => variant = "tickerbot"
    /\ LET r == init(environment, variant # "runbot")
       IN  /\ proc' = r.outcome
           /\ TelegramChatID' = r.TelegramChatID
           /\ pollPc' = [t \in PollTasks |->
                 IF r.outcome # "running" THEN "none"
                 ELSE IF variant = "runbot" /\ t = "runBot" THEN "start"
                 ELSE IF variant = "tickerbot" /\ t = "startup" THEN "start"
                 ELSE IF variant = "tickerbot" /\ t = "ticker" THEN "sleeping"
                 ELSE "none"]
    /\ UNCHANGED <<variant, listener,
                   pollMsg, currentTimestamp, currentReport, prevReport,
                   lastSentMessage, statusTasks, greeted, sent, lastDelivered,
                   lastFailed, derived, pollFrom, fetchedDate, call, ticks, updates>>

\* A poll cycle begins: the first iteration of runBot or the cycle after its
\* time.Sleep; the startup goroutine of part_000; a tick of its ticker.
\* getAPIAnswer issues the request and the goroutine waits for the reply.
PollBegin(t) ==
    /\ Running
    /\ pollPc[t] \in {"start", "sleeping"}
    /\ ticks < MaxTicks
    /\ (variant = "tickerbot" => ticks + updates < MaxEvents)
    /\ pollPc' = [pollPc EXCEPT ![t] = "fetching"]
    /\ ticks' = ticks + 1
    /\ pollFrom' = [pollFrom EXCEPT ![t] =
                       IF t = "runBot" THEN fromDate(currentTimestamp)
                       ELSE fromDate_part000(Now, Now)]
    /\ UNCHANGED call
    /\ UNCHANGED <<variant, listener,
                   proc, TelegramChatID, pollMsg, currentTimestamp,
                   currentReport, prevReport, lastSentMessage, statusTasks, greeted,
                   sent, lastDelivered, lastFailed, derived, fetchedDate, updates>>

\* runBot: the reply arrives; the iteration runs up to sendMessage or to its sleep.
RunBotFetched(reply) ==
    /\ Running
    /\ pollPc["runBot"] = "fetching"
    /\ LET it == runBotIteration(currentTimestamp, currentReport, prevReport, reply)
       IN  /\ currentTimestamp' = it.currentTimestamp
           /\ currentReport' = it.currentReport
           /\ prevReport' = it.prevReport
           /\ pollMsg' = [pollMsg EXCEPT !["runBot"] = it.message]
           /\ pollPc' = [pollPc EXCEPT !["runBot"] =
                            IF it.kind = "send" THEN "sending"
                            ELSE IF it.kind = "panic" THEN "panicked"
                            ELSE "sleeping"]
           /\ proc' = IF it.kind = "panic" THEN "crashed" ELSE proc
           /\ sent' = IF it.kind = "send" THEN sent + 1 ELSE sent
    /\ derived' = withDerived(derived, CycleViewOf("runbot", reply).derived)
    /\ pollFrom' = [pollFrom EXCEPT !["runBot"] = NoDate]
    /\ fetchedDate' = withFetched(fetchedDate, getAPIAnswer(reply))
    /\ UNCHANGED call
    /\ UNCHANGED <<variant, listener,
                   TelegramChatID, lastSentMessage, statusTasks, greeted,
                   lastDelivered, lastFailed, ticks, updates>>

\* runBot: sendMessage returns; prevReport = currentReport whatever it returned.
RunBotSent(ok) ==
    /\ Running
    /\ pollPc["runBot"] = "sending"
    /\ prevReport' = currentReport
    /\ pollPc' = [pollPc EXCEPT !["runBot"] = "sleeping"]
    /\ pollMsg' = [pollMsg EXCEPT !["runBot"] = NoText]
    /\ lastDelivered' = IF ok THEN pollMsg["runBot"] ELSE lastDelivered
    /\ lastFailed' = IF ok THEN NoText ELSE pollMsg["runBot"]
    /\ UNCHANGED <<pollFrom, fetchedDate>>
    /\ UNCHANGED call
    /\ UNCHANGED <<variant, listener,
                   proc, TelegramChatID, currentTimestamp, currentReport,
                   lastSentMessage, statusTasks, greeted, sent, derived, ticks, updates>>

\* part_000: where a goroutine goes when its fetchAPIResponse returns.
afterCycle(t) == IF t = "startup" THEN "done" ELSE "sleeping"

\* part_000: the reply arrives; fetchAPIResponse runs up to sendMessage or
\* returns.  The comparison reads lastSentMessage as it stands, torn when
\* the other goroutine is between its two stores.
FetchAPIResponseFetched(t, reply) ==
    /\ Running
    /\ t \in {"startup", "ticker"}
    /\ pollPc[t] = "fetching"
    /\ \E it \in fetchAPIResponse(lastSentMessage, TelegramChatID, reply) :
          LET crash == it.kind \in {"panic", "fault"}
          IN  /\ pollMsg' = [pollMsg EXCEPT ![t] = it.message]
              /\ pollPc' = [pollPc EXCEPT ![t] =
                               IF it.kind = "send" THEN "sending"
                               ELSE IF crash THEN "panicked"
                               ELSE afterCycle(t)]
              /\ proc' = IF crash THEN "crashed" ELSE proc
              /\ sent' = IF it.kind = "send" THEN sent + 1 ELSE sent
    /\ derived' = withDerived(derived, CycleViewOf("tickerbot", reply).derived)
    /\ pollFrom' = [pollFrom EXCEPT ![t] = NoDate]
    /\ fetchedDate' = withFetched(fetchedDate, getAPIAnswer_part000(reply))
    /\ UNCHANGED call
    /\ UNCHANGED <<variant, listener,
                   TelegramChatID, currentTimestamp, currentReport, prevReport,
                   lastSentMessage, statusTasks, greeted, lastDelivered, lastFailed,
                   ticks, updates>>

\* part_000: sendMessage returns.  When it succeeded the goroutine begins
\* lastSentMessage = message: the assignment of a string is two word stores
\* with no synchronisation, in the order the build chose, and this step is
\* the first of them.
FetchAPIResponseSent(t, ok) ==
    /\ Running
    /\ t \in {"startup", "ticker"}
    /\ pollPc[t] = "sending"
    /\ IF ok
       THEN \E word \in {"data", "len"} :
               /\ lastSentMessage' = [lastSentMessage EXCEPT
                                         ![word] = StringHeader(pollMsg[t])[word]]
               /\ pollPc' = [pollPc EXCEPT ![t] = IF word = "data" THEN "storing_len"
                                                  ELSE "storing_data"]
               /\ pollMsg' = pollMsg
       ELSE /\ lastSentMessage' = lastSentMessage
            /\ pollPc' = [pollPc EXCEPT ![t] = afterCycle(t)]
            /\ pollMsg' = [pollMsg EXCEPT ![t] = NoText]
    /\ lastDelivered' = IF ok THEN pollMsg[t] ELSE lastDelivered
    /\ lastFailed' = IF ok THEN NoText ELSE pollMsg[t]
    /\ UNCHANGED <<pollFrom, fetchedDate>>
    /\ UNCHANGED call
    /\ UNCHANGED <<variant, listener,
                   proc, TelegramChatID, currentTimestamp, currentReport,
                   prevReport, statusTasks, greeted, sent, derived, ticks, updates>>

\* part_000: the second word store of lastSentMessage = message; the call of
\* fetchAPIResponse returns.
FetchAPIResponseStored(t) ==
    /\ Running
    /\ t \in {"startup", "ticker"}
    /\ pollPc[t] \in {"storing_data", "storing_len"}
    /\ LET word == IF pollPc[t] = "storing_data" THEN "data" ELSE "len"
       IN  lastSentMessage' = [lastSentMessage EXCEPT
                                 ![word] = StringHeader(pollMsg[t])[word]]
    /\ pollPc' = [pollPc EXCEPT ![t] = afterCycle(t)]
    /\ pollMsg' = [pollMsg EXCEPT ![t] = NoText]
    /\ UNCHANGED <<pollFrom, fetchedDate>>
    /\ UNCHANGED call
    /\ UNCHANGED <<variant, listener,
                   proc, TelegramChatID, currentTimestamp, currentReport,
                   prevReport, statusTasks, greeted, sent, lastDelivered, lastFailed,
                   derived, ticks, updates>>

\* Mutant of commandKind: the switch has a default case that greets.
commandKind_default(command) ==
    IF command = "status" THEN "status" ELSE "start"

\* handleCommand: the switch on msg.Command() has the cases "start" and
\* "status" and no default.
commandKind(command) ==
    IF command = "start" THEN "start"
    ELSE IF command = "status" THEN "status"
    ELSE "none"

\* handleUpdates: handleCommand is called for a message that is a command.
dispatch(update) ==
    IF update.hasMessage /\ update.isCommand THEN commandKind(update.command)
    ELSE "none"

\* Mutant of ReceiveUpdate: the cycle of /status runs in the listener, which
\* takes the next update when the cycle is over.
ReceiveUpdate_blocking(update) ==
    /\ Running
    /\ variant \in {"cmdbot", "tickerbot"}
    /\ listener.pc = "receiving"
    /\ updates < MaxUpdates
    /\ (variant = "tickerbot" => ticks + updates < MaxEvents)
    /\ \A i \in 1..Len(statusTasks) : statusTasks[i].pc = "done"
    /\ updates' = updates + 1
    /\ greeted' = IF dispatch(update) = "start"
                  THEN Append(greeted, [to |-> update.chat, text |-> GreetingText])
                  ELSE greeted
    /\ listener' = IF dispatch(update) = "start"
                   THEN [pc |-> "greeting", sender |-> update.sender]
                   ELSE listener
    /\ statusTasks' =
          IF dispatch(update) = "status"
          THEN Append(statusTasks,
                      [chat |-> update.chat, sender |-> update.sender,
                       pc |-> "fetching",
                       from |-> IF variant = "cmdbot" THEN fromDate(Now)
                                ELSE fromDate_part000(Now, Now),
                       to |-> 0, text |-> NoText, logs |-> FALSE])
          ELSE statusTasks
    /\ UNCHANGED <<pollFrom, fetchedDate>>
    /\ UNCHANGED call
    /\ UNCHANGED <<variant, proc, TelegramChatID, pollPc, pollMsg, currentTimestamp,
                   currentReport, prevReport, lastSentMessage, sent, lastDelivered,
                   lastFailed, derived, ticks>>

\* handleUpdates takes the next update.  On /start handleCommand calls
\* sendMessage in the listener itself, which then waits for the answer of
\* Telegram; on /status it starts a goroutine, whose first statement is the
\* request to the API, and returns to the channel receive.
ReceiveUpdate(update) ==
    /\ Running
    /\ variant \in {"cmdbot", "tickerbot"}
    /\ listener.pc = "receiving"
    /\ updates < MaxUpdates
    /\ (variant = "tickerbot" => ticks + updates < MaxEvents)
    /\ updates' = updates + 1
    /\ greeted' = IF dispatch(update) = "start"
                  THEN Append(greeted, [to |-> update.chat, text |-> GreetingText])
                  ELSE greeted
    /\ listener' = IF dispatch(update) = "start"
                   THEN [pc |-> "greeting", sender |-> update.sender]
                   ELSE listener
    /\ statusTasks' =
          IF dispatch(update) = "status"
          THEN Append(statusTasks,
                      [chat |-> update.chat, sender |-> update.sender,
                       pc |-> "fetching",
                       from |-> IF variant = "cmdbot" THEN fromDate(Now)
                                ELSE fromDate_part000(Now, Now),
                       to |-> 0, text |-> NoText, logs |-> FALSE])
          ELSE statusTasks
    /\ UNCHANGED <<pollFrom, fetchedDate>>
    /\ UNCHANGED call
    /\ UNCHANGED <<variant, proc, TelegramChatID, pollPc, pollMsg, currentTimestamp,
                   currentReport, prevReport, lastSentMessage, sent, lastDelivered,
                   lastFailed, derived, ticks>>

\* The send of the greeting returns (its result is dropped) and the listener
\* logs msg.From.ID: it goes back to the channel receive, or panics when the
\* message has no sender.
GreetingSent ==
    /\ Running
    /\ listener.pc = "greeting"
    /\ listener' = IF listener.sender THEN Receiving
                   ELSE [pc |-> "panicked", sender |-> TRUE]
    /\ proc' = IF listener.sender THEN proc ELSE "crashed"
    /\ UNCHANGED <<pollFrom, fetchedDate>>
    /\ UNCHANGED call
    /\ UNCHANGED <<variant, TelegramChatID, pollPc, pollMsg, currentTimestamp,
                   currentReport, prevReport, lastSentMessage, statusTasks, greeted,
                   sent, lastDelivered, lastFailed, derived, ticks, updates>>

\* handleStatus of the program: computed once for the replies of the model.
handleStatusReplies ==
    [v \in Programs |->
        [reply \in HttpReplies |->
            IF v = "cmdbot" THEN handleStatus(reply) ELSE handleStatus_part000(reply)]]

handleStatusOf(v, reply) ==
    IF reply \in HttpReplies THEN handleStatusReplies[v][reply]
    ELSE IF v = "cmdbot" THEN handleStatus(reply) ELSE handleStatus_part000(reply)

\* A /status goroutine that records the message it derived in the marker of
\* the poll loop, as a handler sharing the global lastSentMessage would.
StatusFetched_shared(i, reply) ==
    /\ Running
    /\ i \in 1..Len(statusTasks)
    /\ statusTasks[i].pc = "fetching"
    /\ LET r == handleStatusOf(variant, reply)
       IN  /\ statusTasks' = [statusTasks EXCEPT ![i] =
                 [chat |-> statusTasks[i].chat,
                  sender |-> statusTasks[i].sender \/ ~r.logs,
                  logs |-> r.logs,
                  from |-> NoDate,
                  pc |-> IF r.kind = "panic" THEN "panicked" ELSE "replying",
                  to |-> IF r.kind = "panic" THEN 0 ELSE statusTasks[i].chat,
                  text |-> r.text]]
           /\ proc' = IF r.kind = "panic" THEN "crashed" ELSE proc
           /\ lastSentMessage' = IF r.kind = "panic" THEN lastSentMessage
                                 ELSE StringHeader(r.text)
    /\ UNCHANGED <<pollFrom, fetchedDate>>
    /\ UNCHANGED call
    /\ UNCHANGED <<variant, listener,
                   TelegramChatID, pollPc, pollMsg, currentTimestamp,
                   currentReport, prevReport, greeted, sent,
                   lastDelivered, lastFailed, derived, ticks, updates>>

\* The goroutine of a /status command gets the reply of the API and sends its
\* answer to msg.Chat.ID, or panics on the current_date assertion.  sender
\* is kept only where the goroutine reads msg.From again (logs), as logs is
\* kept only until it has.
StatusFetched(i, reply) ==
    /\ Running
    /\ i \in 1..Len(statusTasks)
    /\ statusTasks[i].pc = "fetching"
    /\ LET r == handleStatusOf(variant, reply)
       IN  /\ statusTasks' = [statusTasks EXCEPT ![i] =
                 [chat |-> statusTasks[i].chat,
                  sender |-> statusTasks[i].sender \/ ~r.logs,
                  logs |-> r.logs,
                  from |-> NoDate,
                  pc |-> IF r.kind = "panic" THEN "panicked" ELSE "replying",
                  to |-> IF r.kind = "panic" THEN 0 ELSE statusTasks[i].chat,
                  text |-> r.text]]
           /\ proc' = IF r.kind = "panic" THEN "crashed" ELSE proc
    /\ UNCHANGED <<pollFrom, fetchedDate>>
    /\ UNCHANGED call
    /\ UNCHANGED <<variant, listener,
                   TelegramChatID, pollPc, pollMsg, currentTimestamp,
                   currentReport, prevReport, lastSentMessage, greeted, sent,
                   lastDelivered, lastFailed, derived, ticks, updates>>

\* The send of a /status goroutine returns (its result is dropped).  After
\* the message or the "no new statuses" text the goroutine logs msg.From.ID,
\* and panics when the message has no sender.
StatusReplied(i) ==
    /\ Running
    /\ i \in 1..Len(statusTasks)
    /\ statusTasks[i].pc = "replying"
    /\ LET nilSender == statusTasks[i].logs /\ ~statusTasks[i].sender
       IN  /\ statusTasks' = [statusTasks EXCEPT
                                 ![i].pc = IF nilSender THEN "panicked" ELSE "done",
                                 ![i].logs = FALSE]
           /\ proc' = IF nilSender THEN "crashed" ELSE proc
    /\ UNCHANGED <<pollFrom, fetchedDate>>
    /\ UNCHANGED call
    /\ UNCHANGED <<variant, listener, TelegramChatID, pollPc, pollMsg,
                   currentTimestamp, currentReport, prevReport, lastSentMessage,
                   greeted, sent, lastDelivered, lastFailed, derived, ticks, updates>>

\* Mutant of Shutdown: main waits for the goroutines that are at work.
Shutdown_drains ==
    /\ Running
    /\ \A t \in PollTasks :
          pollPc[t] \notin {"fetching", "sending", "storing_data", "storing_len"}
    /\ \A i \in 1..Len(statusTasks) : statusTasks[i].pc = "done"
    /\ listener.pc = "receiving"
    /\ proc' = "exited"
    /\ UNCHANGED <<variant, listener,
                   TelegramChatID, pollPc, pollMsg, currentTimestamp,
                   currentReport, prevReport, lastSentMessage, statusTasks, greeted,
                   sent, lastDelivered, lastFailed, derived, pollFrom, fetchedDate,
                   call, ticks, updates>>

\* main receives SIGINT or SIGTERM, logs and returns: the process ends, and
\* its goroutines with it, wherever they are.
Shutdown ==
    /\ Running
    /\ proc' = "exited"
    /\ UNCHANGED <<pollFrom, fetchedDate>>
    /\ UNCHANGED call
    /\ UNCHANGED <<variant, listener,
                   TelegramChatID, pollPc, pollMsg, currentTimestamp,
                   currentReport, prevReport, lastSentMessage, statusTasks, greeted,
                   sent, lastDelivered, lastFailed, derived, ticks, updates>>

Next ==
    \/ \E environment \in Environments : ProcessStart(environment)
    \/ \E t \in PollTasks : PollBegin(t)
    \/ \E reply \in HttpReplies : RunBotFetched(reply)
    \/ \E ok \in BOOLEAN : RunBotSent(ok)
    \/ \E t \in PollTasks, reply \in HttpReplies : FetchAPIResponseFetched(t, reply)
    \/ \E t \in PollTasks, ok \in BOOLEAN : FetchAPIResponseSent(t, ok)
    \/ \E t \in PollTasks : FetchAPIResponseStored(t)
    \/ \E update \in Updates : ReceiveUpdate(update)
    \/ GreetingSent
    \/ \E i \in 1..MaxUpdates, reply \in HttpReplies : StatusFetched(i, reply)
    \/ \E i \in 1..MaxUpdates : StatusReplied(i)
    \/ Shutdown

Spec == Init /\ [][Next]_vars

(***************************************************************************)
(* The translator and the validator on their own: a record or a decoded    *)
(* payload is drawn, and the function of the program is applied to it.     *)
(***************************************************************************)

\* Elements of a homeworks list a payload may hold.
MaxListLen == 2

\* The records parseStatus is applied to; those of part_000 have four fields.
HomeworkInputs(v) ==
    IF v = "tickerbot"
    THEN {[Name |-> n, Status |-> s, ReviewerComment |-> c, LessonName |-> l] :
            n \in {NoText, Hw1, Hw2},
            s \in {ApprovedStatus, ReviewingStatus, RejectedStatus, Bogus,
                   NoNewStatuses, NoText},
            c \in {NoText, CommentOk}, l \in {NoText, Lesson1}}
    ELSE {[Name |-> n, Status |-> s] :
            n \in {NoText, Hw1, Hw2},
            s \in {ApprovedStatus, ReviewingStatus, RejectedStatus, Bogus,
                   NoNewStatuses, NoText}}

\* Elements of a decoded homeworks list: objects whose keys are strings,
\* absent or of another type, and a value that is no object.
ElementInputs ==
    {JObj(n, s, c, l) :
        n \in {JStr(Hw1), JStr(Hw2), JNum(1)},
        s \in {JStr(ApprovedStatus), JNil},
        c \in {JNil, JStr(CommentOk), JNum(1)},
        l \in {JNil, JStr(Lesson1)}}
      \cup {JStr(Hw1)}

RECURSIVE ListsUpTo(_)
ListsUpTo(n) ==
    IF n = 0 THEN {<<>>}
    ELSE LET shorter == ListsUpTo(n - 1)
         IN  shorter \cup {Append(l, e) : l \in {s \in shorter : Len(s) = n - 1},
                                           e \in ElementInputs}

\* The decoded payloads checkResponse is applied to.
PayloadInputs ==
    {Response(JList(l), JNum(1000)) : l \in ListsUpTo(MaxListLen)}
        \cup {Response(JNil, JNum(1000)), Response(JStr(Hw1), JNum(1000)),
              Response(JObj(JStr(Hw1), JStr(ApprovedStatus), JNil, JNil), JNil)}

FunctionInit ==
    /\ MachineInit
    /\ call \in {[fn |-> "parseStatus", pc |-> "input", arg |-> h, out |-> <<>>] :
                    h \in HomeworkInputs(variant)}
                \cup {[fn |-> "checkResponse", pc |-> "input", arg |-> p, out |-> <<>>] :
                        p \in PayloadInputs}

\* parseStatus of the program returns.
ParseStatusApplied ==
    /\ call.fn = "parseStatus" /\ call.pc = "input"
    /\ call' = [call EXCEPT !.pc = "returned",
                            !.out = IF variant = "tickerbot"
                                    THEN parseStatus_part000(call.arg)
                                    ELSE parseStatus(call.arg)]
    /\ UNCHANGED <<variant, listener,
                   proc, TelegramChatID, pollPc, pollMsg, currentTimestamp,
                   currentReport, prevReport, lastSentMessage, statusTasks, greeted,
                   sent, lastDelivered, lastFailed, derived, pollFrom, fetchedDate,
                   ticks, updates>>

\* checkResponse of the program returns.
CheckResponseApplied ==
    /\ call.fn = "checkResponse" /\ call.pc = "input"
    /\ call' = [call EXCEPT !.pc = "returned",
                            !.out = IF variant = "tickerbot"
                                    THEN checkResponse_part000(call.arg)
                                    ELSE checkResponse(call.arg)]
    /\ UNCHANGED <<variant, listener,
                   proc, TelegramChatID, pollPc, pollMsg, currentTimestamp,
                   currentReport, prevReport, lastSentMessage, statusTasks, greeted,
                   sent, lastDelivered, lastFailed, derived, pollFrom, fetchedDate,
                   ticks, updates>>

FunctionNext == ParseStatusApplied \/ CheckResponseApplied

FunctionSpec == FunctionInit /\ [][FunctionNext]_vars
(***************************************************************************)
(* Steps of the poll goroutines, as the claims speak of them               *)
(***************************************************************************)

\* The payload of the end-to-end scenario:
\* {"homeworks":[{"homework_name":"hw1","status":"approved"}],"current_date":1000}
ScenarioReply ==
    HttpReply(StatusOK, TRUE,
              Response(JList(<<JObj(JStr(Hw1), JStr(ApprovedStatus), JNil, JNil)>>),
                       JNum(1000)))

\* Goroutine t gets reply as the answer of the API in this step.
Fetched(t, reply) ==
    \/ t = "runBot" /\ RunBotFetched(reply)
    \/ t # "runBot" /\ FetchAPIResponseFetched(t, reply)

\* What the cycle is about.
CycleView(t, reply) ==
    CycleViewOf(IF t = "runBot" THEN "runbot" ELSE "tickerbot", reply)

\* The send of goroutine t returns in this step, with success or not.
SendReturned(t, ok) ==
    \/ t = "runBot" /\ RunBotSent(ok)
    \/ t # "runBot" /\ FetchAPIResponseSent(t, ok)

\* Goroutine t completes in this step the write of its marker that follows
\* a send that succeeded.
MarkerWritten(t) ==
    \/ t = "runBot" /\ RunBotSent(TRUE)
    \/ t # "runBot" /\ FetchAPIResponseStored(t)

\* Goroutine t calls the notifier in this step, with message m.
Notifies(t, m) ==
    /\ pollPc[t] = "fetching" /\ pollPc'[t] = "sending"
    /\ pollMsg'[t] = m
    /\ sent' = sent + 1

\* Goroutine t ends its cycle in this step without calling the notifier.
NoNotification(t) ==
    /\ pollPc[t] = "fetching" /\ pollPc'[t] # "sending"
    /\ sent' = sent

(***************************************************************************)
(* C1.  The poll loop sends a notification only when its message differs   *)
(* from the message of the previous notification it sent: no two           *)
(* consecutive poll notifications that were delivered carry the same       *)
(* message.                                                                *)
(***************************************************************************)
C1_NoRepeatedNotification ==
    [][\A t \in PollTasks : SendReturned(t, TRUE) => pollMsg[t] # lastDelivered]_vars

(***************************************************************************)
(* C2.  The marker of the poll loop (prevReport of runBot, lastSentMessage *)
(* of part_000) changes only in a step in which a send succeeded (and in   *)
(* the step that completes the assignment begun there): a cycle that fails *)
(* to fetch, validate or translate, or whose send fails, leaves it as it   *)
(* was.                                                                    *)
(***************************************************************************)
C2_MarkerOnlyAfterSuccessfulSend ==
    [][/\ prevReport' # prevReport => RunBotSent(TRUE)
       /\ lastSentMessage' # lastSentMessage =>
             \E t \in PollTasks : \/ FetchAPIResponseSent(t, TRUE)
                                  \/ FetchAPIResponseStored(t)]_vars

(***************************************************************************)
(* C3.  In a run whose poll cycles all derive the same message, the        *)
(* notifier is called at most once (original statement).                   *)
(***************************************************************************)
C3_Original == derived # Mixed => sent <= 1

(***************************************************************************)
(* C3, amended.  In a run whose poll cycles all derive the same message:   *)
(* runBot calls the notifier at most once; a cycle of part_000 calls it    *)
(* only if no send of that message had succeeded when the cycle compared   *)
(* the message with lastSentMessage, or the write of lastSentMessage that  *)
(* follows such a send was not complete then.  So it is called again after *)
(* a failed send and by a cycle that overlaps the one whose send succeeds. *)
(***************************************************************************)
C3_SteadyStatus ==
    [][derived' # Mixed =>
          /\ variant = "runbot" => sent' <= 1
          /\ \A t \in PollTasks :
                pollPc[t] = "fetching" /\ pollPc'[t] = "sending"
                    => \/ lastDelivered # pollMsg'[t]
                       \/ \E u \in PollTasks \ {t} :
                             pollPc[u] \in {"storing_data", "storing_len"}]_vars

\* Witness: part_000 ran two cycles that derived the same message; the first
\* delivered it and the second called nothing.
C3_Witness ==
    /\ variant = "tickerbot"
    /\ ticks = 2
    /\ pollPc["startup"] = "done" /\ pollPc["ticker"] = "sleeping"
    /\ derived = {lastDelivered}
    /\ lastDelivered # NoText
    /\ sent = 1

(***************************************************************************)
(* C4.  When a notification m1 was delivered and a later cycle fetches,    *)
(* validates and translates to a message m2 other than m1, that cycle      *)
(* calls the notifier once with m2, and when the send succeeds the marker  *)
(* stands for m2.                                                          *)
(***************************************************************************)
C4_NewMessageIsSent ==
    [][\A t \in PollTasks :
          /\ \A reply \in HttpReplies :
                (/\ Fetched(t, reply)
                 /\ CycleView(t, reply).case = "message"
                 /\ lastDelivered # NoText
                 /\ CycleView(t, reply).derived # lastDelivered)
                    => Notifies(t, CycleView(t, reply).derived)
          /\ MarkerWritten(t) => MarkerText' = pollMsg[t]]_vars

(***************************************************************************)
(* C5.  A notification whose send failed is retried: when the last send    *)
(* failed and a later cycle derives the same message again (and it has not *)
(* been delivered since), that cycle calls the notifier with it.           *)
(***************************************************************************)
C5_FailedSendIsRetried ==
    [][\A t \in PollTasks : \A reply \in HttpReplies :
          (/\ Fetched(t, reply)
           /\ CycleView(t, reply).case = "message"
           /\ lastFailed = CycleView(t, reply).derived
           /\ lastDelivered # CycleView(t, reply).derived)
              => Notifies(t, CycleView(t, reply).derived)]_vars

(***************************************************************************)
(* C6.  A cycle that fails to fetch (transport error, status other than    *)
(* 200, body that does not decode), to validate (schema error) or to       *)
(* translate (unknown status), and a cycle whose message is the one the    *)
(* marker stands for, does not call the notifier; the goroutine goes to    *)
(* its wait (the one-shot startup goroutine of part_000 ends) and the      *)
(* process keeps running.                                                  *)
(***************************************************************************)
C6_FailedCycleSendsNothing ==
    [][\A t \in PollTasks : \A reply \in HttpReplies :
          (/\ pollPc[t] = "fetching" /\ pollPc'[t] # "fetching"
           /\ LET view == CycleView(t, reply)
              IN  \/ view.case \in {"fetch_error", "schema_error", "translate_error"}
                  \/ view.case = "message" /\ view.derived = MarkerText
           /\ Fetched(t, reply))
              => /\ NoNotification(t)
                 /\ pollPc'[t] = IF t = "startup" THEN "done" ELSE "sleeping"
                 /\ proc' = "running"]_vars

\* Witness: runBot delivered a message, then a cycle met the unknown status
\* "bogus" and went to sleep without a second call of the notifier.
C6_Witness ==
    /\ variant = "runbot"
    /\ ticks = 2
    /\ pollPc["runBot"] = "sleeping"
    /\ currentReport.Status = Bogus
    /\ lastDelivered # NoText
    /\ sent = 1
    /\ proc = "running"

(***************************************************************************)
(* C7.  A cycle whose response has an empty homeworks list does not call   *)
(* the notifier (original statement).                                      *)
(***************************************************************************)
C7_Original ==
    [][\A t \in PollTasks : \A reply \in HttpReplies :
          Fetched(t, reply) /\ CycleView(t, reply).empty => NoNotification(t)]_vars

(***************************************************************************)
(* C7, amended.  A cycle of part_000 whose response has an empty list does *)
(* not call the notifier.  A cycle of runBot on an empty list calls it     *)
(* with the text "Нет новых статусов работ." when prevReport.Status is not *)
(* that text already (so on the first cycle), and does not call it         *)
(* otherwise.                                                              *)
(***************************************************************************)
C7_EmptyList ==
    [][\A t \in PollTasks : \A reply \in HttpReplies :
          (/\ pollPc[t] = "fetching" /\ pollPc'[t] # "fetching"
           /\ CycleView(t, reply).empty
           /\ Fetched(t, reply)) =>
              IF t = "runBot" /\ prevReport.Status # NoNewStatuses
              THEN Notifies(t, NoNewStatuses)
              ELSE NoNotification(t)]_vars

\* Witness: the first cycle of runBot met an empty list and the text was
\* delivered.
C7_Witness ==
    /\ variant = "runbot"
    /\ ticks = 1
    /\ currentReport = SentinelHomework
    /\ lastDelivered = NoNewStatuses
    /\ sent = 1

(***************************************************************************)
(* C8.  From the initial state, a cycle on the scenario payload calls the  *)
(* notifier once, with exactly the text                                    *)
(*   Изменился статус проверки работы "hw1": Работа проверена: ревьюеру    *)
(*   всё понравилось. Ура!                                                 *)
(* and, once that send succeeded, a second cycle on the same payload calls *)
(* nothing (original statement).                                           *)
(***************************************************************************)
C8_Original ==
    [][\A t \in PollTasks :
          Fetched(t, ScenarioReply) =>
              /\ ticks = 1 => Notifies(t, Scenario_hw1_approved)
              /\ (ticks = 2 /\ sent = 1 /\ lastDelivered = Scenario_hw1_approved)
                    => NoNotification(t)]_vars

(***************************************************************************)
(* C8, amended.  In runBot the text is exactly the one above.  In part_000 *)
(* the notifier is called when TelegramChatID is an integer, and the text  *)
(* is                                                                      *)
(*   Изменился статус проверки работы "hw1" для урока "": Работа           *)
(*   проверена: ревьюеру всё понравилось. Ура!\nКомментарий ревьюера:      *)
(* (with the trailing space).  In both, a second cycle on the same payload *)
(* that compares after the send of the first succeeded, and after the      *)
(* write of the marker that follows it, calls nothing.                     *)
(***************************************************************************)
C8_Scenario ==
    [][\A t \in PollTasks :
          Fetched(t, ScenarioReply) =>
              /\ (ticks = 1 /\ t = "runBot") => Notifies(t, Scenario_hw1_approved)
              /\ (ticks = 1 /\ t # "runBot" /\ TelegramChatID = ChatIdNumeric)
                    => Notifies(t, Scenario_hw1_approved_part000)
              /\ (/\ ticks = 2 /\ sent = 1
                  /\ lastDelivered \in {Scenario_hw1_approved,
                                        Scenario_hw1_approved_part000}
                  /\ \A u \in PollTasks \ {t} :
                        pollPc[u] \notin {"storing_data", "storing_len"})
                    => NoNotification(t)]_vars

\* Witness: runBot ran two cycles on the scenario payload; the first
\* delivered the text, the second called nothing.
C8_Witness ==
    /\ variant = "runbot"
    /\ ticks = 2
    /\ pollPc["runBot"] = "sleeping"
    /\ currentTimestamp = 1000
    /\ derived = {Scenario_hw1_approved}
    /\ lastDelivered = Scenario_hw1_approved
    /\ sent = 1

(***************************************************************************)
(* C9.  No reply that the fetcher returns without error ends a poll        *)
(* goroutine or the process: no poll cycle panics.                         *)
(***************************************************************************)
C9_PollNeverPanics == \A t \in PollTasks : pollPc[t] # "panicked"

(***************************************************************************)
(* C10.  Every /status command gets exactly one reply, to the chat it came *)
(* from: the message, the "no new statuses" text when the list is empty,   *)
(* and the failure text for every failure, a response without a numeric    *)
(* current_date included.                                                  *)
(***************************************************************************)
C10_StatusAlwaysReplies ==
    [][\A i \in 1..Len(statusTasks) : \A reply \in HttpReplies :
          StatusFetched(i, reply) =>
              /\ statusTasks'[i].pc = "replying"
              /\ statusTasks'[i].to = statusTasks[i].chat
              /\ statusTasks'[i].text = StatusDueTo[variant][reply]]_vars


(***************************************************************************)
(* C11.  The poll loop keeps a rolling cursor: once a poll fetch succeeded *)
(* with current_date = d, the request of the next poll cycle carries       *)
(* from_date = d; a cycle whose fetch failed leaves the cursor of runBot   *)
(* as it was.                                                              *)
(***************************************************************************)
C11_RollingCursor ==
    [][/\ \A t \in PollTasks :
             (PollBegin(t) /\ fetchedDate # NoDate) => pollFrom'[t] = fetchedDate
       /\ \A reply \in HttpReplies :
             (RunBotFetched(reply) /\ getAPIAnswer(reply).err # "nil")
                 => currentTimestamp' = currentTimestamp]_vars

(***************************************************************************)
(* C12.  parseStatus applied to a record whose status is the sentinel      *)
(* "Нет новых статусов работ." returns that text and no error, in every    *)
(* program (original statement).                                           *)
(***************************************************************************)
C12_Original ==
    (call.fn = "parseStatus" /\ call.pc = "returned"
        /\ call.arg.Status = NoNewStatuses)
        => call.out = [message |-> NoNewStatuses, err |-> NoErr]

(***************************************************************************)
(* C12, amended.  parseStatus of src/main.go (both programs) returns the   *)
(* sentinel text and no error; parseStatus of part_000 has no case for the *)
(* sentinel and returns the empty message with the unknown-status error.   *)
(***************************************************************************)
C12_Sentinel ==
    (call.fn = "parseStatus" /\ call.pc = "returned"
        /\ call.arg.Status = NoNewStatuses)
        => call.out = IF variant = "tickerbot"
                      THEN [message |-> NoText,
                            err |-> FmtUnknownStatus \o NoNewStatuses]
                      ELSE [message |-> NoNewStatuses, err |-> NoErr]

\* Witness: parseStatus of src/main.go has returned the sentinel text for a
\* record that also has a name.
C12_Witness ==
    /\ variant = "runbot"
    /\ call.fn = "parseStatus" /\ call.pc = "returned"
    /\ call.arg = [Name |-> Hw1, Status |-> NoNewStatuses]
    /\ call.out.message = NoNewStatuses

\* The text part occurs in the text.
Contains(text, part) ==
    \E i \in 0..(Len(text) - Len(part)) : SubSeq(text, i + 1, i + Len(part)) = part

(***************************************************************************)
(* C13.  For a record whose status is approved, reviewing or rejected,     *)
(* parseStatus returns no error and a message that contains the name of    *)
(* the record and the verdict HomeworkVerdict gives for the status; for    *)
(* every other status but the sentinel it returns an error and the empty   *)
(* message.                                                                *)
(***************************************************************************)
C13_VerdictOrError ==
    (call.fn = "parseStatus" /\ call.pc = "returned") =>
        IF call.arg.Status \in {ApprovedStatus, ReviewingStatus, RejectedStatus}
        THEN /\ call.out.err = NoErr
             /\ Contains(call.out.message, call.arg.Name)
             /\ Contains(call.out.message, HomeworkVerdict[call.arg.Status])
        ELSE call.arg.Status # NoNewStatuses
                => call.out.err # NoErr /\ call.out.message = NoText

\* Witness: parseStatus of part_000 has returned the error for "bogus", and
\* the message is empty.
C13_Witness ==
    /\ variant = "tickerbot"
    /\ call.fn = "parseStatus" /\ call.pc = "returned"
    /\ call.arg.Status = Bogus /\ call.arg.Name = Hw2
    /\ call.out = [message |-> NoText, err |-> FmtUnknownStatus \o Bogus]

\* The payload is well formed for checkResponse: homeworks is a list of
\* objects with a string homework_name and a string status.
WellFormed(payload) ==
    /\ payload.homeworks.t = "list"
    /\ \A i \in 1..Len(payload.homeworks.v) :
          /\ payload.homeworks.v[i].t = "object"
          /\ payload.homeworks.v[i].v.homework_name.t = "string"
          /\ payload.homeworks.v[i].v.status.t = "string"

(***************************************************************************)
(* C14.  For a payload whose homeworks is a list of objects with a string  *)
(* homework_name and a string status, checkResponse returns no error and   *)
(* as many records as the list has elements, in the order of the list: the *)
(* i-th record has the name and the status of the i-th element, and (in    *)
(* part_000, whose records have them) the reviewer comment and the lesson  *)
(* name of the element when they are strings, the empty string otherwise.  *)
(***************************************************************************)
C14_RecordsMatchSource ==
    (call.fn = "checkResponse" /\ call.pc = "returned" /\ WellFormed(call.arg)) =>
        LET list == call.arg.homeworks.v
            records == call.out.homeworks
        IN  /\ call.out.err = NoErr
            /\ Len(records) = Len(list)
            /\ \A i \in 1..Len(list) :
                  /\ records[i].Name = list[i].v.homework_name.v
                  /\ records[i].Status = list[i].v.status.v
                  /\ variant = "tickerbot" =>
                        /\ records[i].ReviewerComment =
                              IF list[i].v.reviewer_comment.t = "string"
                              THEN list[i].v.reviewer_comment.v ELSE NoText
                        /\ records[i].LessonName =
                              IF list[i].v.lesson_name.t = "string"
                              THEN list[i].v.lesson_name.v ELSE NoText

\* Witness: checkResponse of part_000 has returned two records for a list of
\* two elements, the first with a comment that is a number, the second with
\* a comment and a lesson name.
C14_Witness ==
    /\ variant = "tickerbot"
    /\ call.fn = "checkResponse" /\ call.pc = "returned"
    /\ call.arg.homeworks =
          JList(<<JObj(JStr(Hw2), JStr(ApprovedStatus), JNum(1), JNil),
                  JObj(JStr(Hw1), JStr(ApprovedStatus), JStr(CommentOk), JStr(Lesson1))>>)
    /\ call.out.homeworks =
          <<[Name |-> Hw2, Status |-> ApprovedStatus, ReviewerComment |-> NoText,
             LessonName |-> NoText],
            [Name |-> Hw1, Status |-> ApprovedStatus, ReviewerComment |-> CommentOk,
             LessonName |-> Lesson1]>>

\* The error checkResponse owes a payload that is not well formed: that of
\* the first offence in scan order.
FirstOffence(v, payload) ==
    LET list == payload.homeworks.v
        bad == {i \in 1..Len(list) :
                   \/ list[i].t # "object"
                   \/ list[i].v.homework_name.t # "string"
                   \/ list[i].v.status.t # "string"}
        first == list[Min(bad)]
        part000 == v = "tickerbot"
    IN  IF payload.homeworks.t # "list"
        THEN IF part000 THEN ErrNotList_part000 ELSE ErrNotList
        ELSE IF first.t # "object"
        THEN IF part000 THEN ErrNotDict_part000 ELSE ErrNotDict
        ELSE IF first.v.homework_name.t # "string"
        THEN IF part000 THEN ErrNameNotString_part000 ELSE ErrNameNotString
        ELSE IF part000 THEN ErrStatusNotString_part000 ELSE ErrStatusNotString

(***************************************************************************)
(* C15.  For a payload in which homeworks is missing or no list, or in     *)
(* which an element is no object or lacks a string homework_name or a      *)
(* string status, checkResponse returns an error and no records, and the   *)
(* error is that of the first offence in scan order: homeworks; then, for  *)
(* the first bad element, not an object, homework_name, status.            *)
(***************************************************************************)
C15_FirstOffenceReported ==
    (call.fn = "checkResponse" /\ call.pc = "returned" /\ ~WellFormed(call.arg)) =>
        /\ call.out.homeworks = <<>>
        /\ call.out.err = FirstOffence(variant, call.arg)

\* Witness: the first element is valid, the second lacks both the name and
\* the status: checkResponse of src/main.go has returned no records and the
\* error of homework_name.
C15_Witness ==
    /\ variant = "cmdbot"
    /\ call.fn = "checkResponse" /\ call.pc = "returned"
    /\ call.arg.homeworks =
          JList(<<JObj(JStr(Hw1), JStr(ApprovedStatus), JNil, JNil),
                  JObj(JNum(1), JNil, JNil, JNil)>>)
    /\ call.out = [homeworks |-> <<>>, err |-> ErrNameNotString]

\* The update is no command the listener knows: it has no message, its
\* message is no command, or the command is neither start nor status.
Unrecognized(update) ==
    \/ ~update.hasMessage
    \/ ~update.isCommand
    \/ update.command \notin {"start", "status"}

\* What the poll loop keeps, and what it has sent.
PollState ==
    <<pollPc, pollMsg, pollFrom, currentTimestamp, currentReport, prevReport,
      lastSentMessage, sent, lastDelivered, lastFailed>>

(***************************************************************************)
(* C16.  An update that is no command the listener knows causes nothing:   *)
(* no message is sent, no fetch is issued, no goroutine is started and the *)
(* state of the poll loop is as before, and the listener is back at the    *)
(* channel receive.  A start command causes one send of the greeting to    *)
(* the chat it came from, made by the listener itself, and no fetch.       *)
(***************************************************************************)
C16_UnrecognizedIgnored ==
    [][\A update \in Updates :
          ReceiveUpdate(update) =>
              /\ Unrecognized(update) =>
                    /\ greeted' = greeted
                    /\ listener' = listener
                    /\ statusTasks' = statusTasks
                    /\ PollState' = PollState
              /\ (~Unrecognized(update) /\ update.command = "start") =>
                    /\ greeted' = Append(greeted, [to |-> update.chat,
                                                   text |-> GreetingText])
                    /\ listener'.pc = "greeting"
                    /\ statusTasks' = statusTasks
                    /\ PollState' = PollState]_vars

\* Witness: the listener has taken two updates, the command /help and then
\* /start from chat 202, and the one thing sent is the greeting to 202.
C16_Witness ==
    /\ variant = "cmdbot"
    /\ updates = 2
    /\ greeted = <<[to |-> 202, text |-> GreetingText]>>
    /\ listener = Receiving
    /\ statusTasks = <<>>

(***************************************************************************)
(* C17.  The listener is never blocked by a /status cycle: whatever the    *)
(* goroutines of earlier /status commands are doing, the listener that is  *)
(* at the channel receive (and not in the send of a greeting, which it     *)
(* makes itself) takes the next update, as long as the run has updates     *)
(* left; so several cycles are in flight at once and their replies go out  *)
(* in any order.                                                           *)
(***************************************************************************)
C17_ListenerNeverBlocked ==
    (/\ proc = "running"
     /\ variant \in {"cmdbot", "tickerbot"}
     /\ listener.pc = "receiving"
     /\ updates < MaxUpdates
     /\ (variant = "tickerbot" => ticks + updates < MaxEvents))
        => \A update \in Updates : ENABLED ReceiveUpdate(update)

\* Witness: two /status commands were taken; the goroutine of the second has
\* sent its reply while that of the first still waits for the API.
C17_Witness ==
    /\ Len(statusTasks) = 2
    /\ statusTasks[1].pc = "fetching"
    /\ statusTasks[2].pc = "done"
    /\ statusTasks[2].to = statusTasks[2].chat
    /\ listener.pc = "receiving"
    /\ proc = "running"

\* The value of the variable in the environment of the process is there
\* and not empty.
Present(var) == var.set /\ var.value # NoText

\* Nothing has run but init: no goroutine was started, no request was made
\* and nothing was sent.
NothingStarted ==
    /\ \A t \in PollTasks : pollPc[t] = "none"
    /\ ticks = 0 /\ updates = 0 /\ sent = 0
    /\ statusTasks = <<>> /\ greeted = <<>> /\ listener = Receiving

(***************************************************************************)
(* C18.  Startup fails fast on configuration: when one of the three values *)
(* PRACTICUM_TOKEN, TELEGRAM_TOKEN, TELEGRAM_CHAT_ID that init reads is    *)
(* absent or empty, init aborts the process before a goroutine is started, *)
(* a request made or a message sent; when the three are present in the     *)
(* environment of the process, loading the configuration does not abort.   *)
(***************************************************************************)
C18_ConfigFailFast ==
    [][\A environment \in Environments :
          ProcessStart(environment) =>
              /\ (\E key \in {"PRACTICUM_TOKEN", "TELEGRAM_TOKEN", "TELEGRAM_CHAT_ID"} :
                     Getenv(environment, key) = NoText)
                    => proc' \in {"fatal_dotenv", "fatal_env"} /\ NothingStarted'
              /\ (/\ Present(environment.PRACTICUM_TOKEN)
                  /\ Present(environment.TELEGRAM_TOKEN)
                  /\ Present(environment.TELEGRAM_CHAT_ID))
                    => proc' \notin {"fatal_dotenv", "fatal_env"}]_vars

(***************************************************************************)
(* C19.  Once the signal is received the process exits without waiting for *)
(* its goroutines: in every state of the running process, whatever the     *)
(* poll goroutines, the listener and the goroutines of /status are doing,  *)
(* the step that ends the process can be taken, and it leaves every        *)
(* goroutine where it was.                                                 *)
(***************************************************************************)
C19_ShutdownNeverWaits ==
    proc = "running" =>
        ENABLED (/\ Shutdown
                 /\ proc' = "exited"
                 /\ pollPc' = pollPc
                 /\ listener' = listener
                 /\ statusTasks' = statusTasks)

\* Witness: part_000 has exited while its startup poll was sending and the
\* goroutine of a /status command was waiting for the API.
C19_Witness ==
    /\ variant = "tickerbot"
    /\ proc = "exited"
    /\ pollPc["startup"] = "sending"
    /\ Len(statusTasks) = 1
    /\ statusTasks[1].pc = "fetching"

(***************************************************************************)
(* C20.  Poll cycles are serialized: at no moment are two poll cycles in   *)
(* progress (between the request of a cycle and the return of its send),   *)
(* so the read of the marker and its write in one cycle are never          *)
(* interleaved with those of another cycle.                                *)
(***************************************************************************)
C20_PollCyclesSerialized ==
    Cardinality({t \in PollTasks : pollPc[t] \in {"fetching", "sending"}}) <= 1

\* Some /status goroutine has derived message m and addressed it to its chat.
StatusCarried(m) ==
    \E i \in 1..Len(statusTasks) :
        /\ statusTasks[i].pc \in {"replying", "done"}
        /\ statusTasks[i].text = m

(***************************************************************************)
(* C21.  A /status cycle leaves the state of the poll loop alone, in every *)
(* program: the steps of its goroutine change neither the marker           *)
(* (lastSentMessage, prevReport) nor the cursor nor anything else the poll *)
(* loop keeps, and its reply is the one the response is due whatever the   *)
(* marker holds.  So a poll cycle (with a numeric TELEGRAM_CHAT_ID, and in  *)
(* part_000 one that finds lastSentMessage whole, holding the last message *)
(* delivered, not between the two stores of another goroutine's write)     *)
(* that derives a message m it has not itself delivered calls the notifier *)
(* with m even when a /status reply carried m, and a /status cycle answers *)
(* m even when the poll loop has delivered m.                              *)
(***************************************************************************)
C21_StatusLeavesPollLoopAlone ==
    [][/\ \A i \in 1..Len(statusTasks) :
             /\ (/\ statusTasks[i].pc = "fetching"
                 /\ statusTasks'[i].pc # "fetching")
                    => \A reply \in HttpReplies :
                          StatusFetched(i, reply)
                             => /\ PollState' = PollState
                                /\ fetchedDate' = fetchedDate
                                /\ statusTasks'[i].pc = "replying"
                                      => statusTasks'[i].text
                                            = StatusDueTo[variant][reply]
             /\ (/\ statusTasks[i].pc = "replying"
                 /\ statusTasks'[i].pc # "replying"
                 /\ StatusReplied(i))
                    => PollState' = PollState /\ fetchedDate' = fetchedDate
       /\ \A t \in {"startup", "ticker"} :
             (/\ pollPc[t] = "fetching"
              /\ pollPc'[t] # "fetching"
              /\ ParseInt(TelegramChatID).ok
              /\ lastSentMessage = StringHeader(lastDelivered))
                 => \A reply \in HttpReplies :
                       LET view == CycleView(t, reply)
                       IN  (/\ view.case = "message"
                            /\ lastDelivered # view.derived
                            /\ StatusCarried(view.derived)
                            /\ Fetched(t, reply))
                               => Notifies(t, view.derived)]_vars

\* In part_000 a /status reply and a delivered poll notification carry the
\* same message.
C21_Witness ==
    /\ variant = "tickerbot"
    /\ sent = 1
    /\ lastDelivered # NoText
    /\ lastSentMessage = StringHeader(lastDelivered)
    /\ \E i \in 1..Len(statusTasks) :
          /\ statusTasks[i].pc = "done"
          /\ statusTasks[i].to = statusTasks[i].chat
          /\ statusTasks[i].text = lastDelivered

\* The response was received and decoded, and its homeworks list has a first
\* element and passes the validation as a whole.
ValidatedList(reply) ==
    /\ reply.kind = "http" /\ reply.code = StatusOK /\ reply.decodes
    /\ reply.data.homeworks.t = "list"
    /\ Len(reply.data.homeworks.v) > 0
    /\ WellFormed(reply.data)

\* The elements that pass the validation of checkResponse.
ValidElements ==
    {e \in Elements \cup {tl[1] : tl \in Tails} : WellFormed(Response(JList(<<e>>), JNil))}

\* The replies of the API with such a list.
ValidatedReplies == {reply \in HttpReplies : ValidatedList(reply)}

\* What may follow the first element of a list that passes the validation:
\* nothing, or another valid element.
LaterElements == {<<>>} \cup {tl \in Tails : tl[1] \in ValidElements}

\* The other responses that agree with reply on everything but the elements
\* after the first one of homeworks.
SameFirst(reply) ==
    {[reply EXCEPT !.data.homeworks = JList(<<Head(reply.data.homeworks.v)>> \o tl)] :
        tl \in LaterElements} \ {reply}

\* The first element of the list is valid and a later one is not.
BadLater(reply) ==
    /\ reply.kind = "http" /\ reply.code = StatusOK /\ reply.decodes
    /\ reply.data.homeworks.t = "list"
    /\ Len(reply.data.homeworks.v) > 1
    /\ Head(reply.data.homeworks.v) \in ValidElements
    /\ ~WellFormed(reply.data)
    /\ reply.data.current_date.t = "number"

\* The replies of the API with such a list.
BadLaterReplies == {reply \in HttpReplies : BadLater(reply)}

(***************************************************************************)
(* C22.  Only the first record of the validated list drives a poll cycle   *)
(* or a /status cycle: when the homeworks list of the response passes the  *)
(* validation, the step the goroutine takes on it is the step it takes on  *)
(* every response with the same first element and other (valid) elements   *)
(* after it: the same message to the same chat and the same state.  When   *)
(* the first element is valid and a later one is not, the poll cycle       *)
(* notifies nothing and keeps its marker, and the /status cycle answers    *)
(* with the failure text.                                                  *)
(***************************************************************************)
C22_FirstRecordDrives ==
    [][/\ \A t \in PollTasks :
             (pollPc[t] = "fetching" /\ pollPc'[t] # "fetching")
                => /\ \A reply \in ValidatedReplies :
                         Fetched(t, reply)
                            => \A other \in SameFirst(reply) : Fetched(t, other)
                   /\ \A reply \in BadLaterReplies :
                         Fetched(t, reply)
                            => /\ NoNotification(t)
                               /\ UNCHANGED <<prevReport, currentReport, lastSentMessage>>
       /\ \A i \in 1..Len(statusTasks) :
             (statusTasks[i].pc = "fetching" /\ statusTasks'[i].pc # "fetching")
                => /\ \A reply \in ValidatedReplies :
                         StatusFetched(i, reply)
                            => \A other \in SameFirst(reply) : StatusFetched(i, other)
                   /\ \A reply \in BadLaterReplies :
                         StatusFetched(i, reply)
                            => /\ statusTasks'[i].pc = "replying"
                               /\ statusTasks'[i].text = StatusFailedText]_vars

\* The state that cycles on such lists leave: a poll cycle is sending the
\* message of the first record (of the list of that record alone as of the
\* list with a second valid record after it), and a /status cycle answers
\* with the failure text (as it does when the second element is no object).
C22_Witness ==
    /\ \E t \in PollTasks :
          /\ pollPc[t] = "sending"
          /\ pollMsg[t] = CycleView(t, ScenarioReply).derived
    /\ fetchedDate = 1000
    /\ \E i \in 1..Len(statusTasks) :
          /\ statusTasks[i].pc = "replying"
          /\ statusTasks[i].text = StatusFailedText
====
